---- MODULE Spec2Model ----
(***************************************************************************)
(* Model of the Solana ICO server: the in-memory ICO registry and minted   *)
(* counters (ico_manager.py), the pricing engine (pricing.py), the rate    *)
(* limiter (rate_limiter.py), payment validation and token transfer        *)
(* (solana_utils.py) and the buy_tokens / create_ico tools (server.py).    *)
(*                                                                         *)
(* Conventions                                                             *)
(*  - A Python dict is a function whose DOMAIN is the dict's key set.      *)
(*  - Optional[x] is a sequence: <<>> is None, <<v>> is the value v.       *)
(*  - Money: a curve parameter is an integer number of lamports per whole  *)
(*    token; a SOL amount is the exact fraction num/den of lamports, so    *)
(*    "transfer_amount_sol < required_sol" is lamports * den < num.        *)
(*  - A coroutine runs atomically between two awaits (asyncio, one         *)
(*    thread); each action below is one such run.  The awaits of           *)
(*    buy_tokens are its ledger calls: getTransaction, getLatestBlockhash, *)
(*    sendTransaction and each sleep + getSignatureStatuses round.         *)
(***************************************************************************)
EXTENDS Integers, Sequences, FiniteSets, TLC

VARIABLES
    ico_data,             \* ico_manager.ico_data: ico_id -> IcoConfigModel
    total_tokens_minted,  \* ico_manager.total_tokens_minted: ico_id -> int
    config_files,         \* <ICO_CONFIG_DIR>/<ico_id>.json: ico_id -> config
    rate_limit_cache,     \* rate_limiter.rate_limit_cache: ip -> <<count, ts>>
    crowd,                \* other tracked ips of the cache: [n, ts]
    limit,                \* config.RATE_LIMIT_PER_MINUTE as loaded at startup
    now,                  \* int(time.time())
    ticks,                \* number of clock advances so far
    req,                  \* one record per buy_tokens call (locals + history)
    rl,                   \* history of RateLimitCall, per client key
    last_define,          \* history: the last create_ico call, its input
                          \* and its outcome
    config,               \* the import of config.py: the environment it
                          \* read, how it ended and config.ICO_WALLET
    discount_calls,       \* history: the get_discount calls made, each with
                          \* what it returned
    price_calls           \* history: the last two calculate_token_price
                          \* calls made on their own, each with its result

vars == <<ico_data, total_tokens_minted, config_files, rate_limit_cache, crowd,
          limit, now, ticks, req, rl, last_define, config,
          discount_calls, price_calls>>

-----------------------------------------------------------------------------
(* Bounds of the model *)

MaxTicks == 2        \* clock advances per behaviour
MaxLimit == 2        \* RATE_LIMIT_PER_MINUTE is drawn from 1..MaxLimit
MaxLamports == 4     \* a payment transfers 0..MaxLamports lamports
MaxAmount == 2       \* a well-formed request asks for 1..MaxAmount base units

(* Program constants *)

MAX_ICO_ID_LENGTH == 100
MAX_TRANSACTION_SIG_LENGTH == 200
RATE_WINDOW == 60
CLEANUP_THRESHOLD == 1000
POLL_TIMEOUT == 60
CHECK_INTERVAL == 2

-----------------------------------------------------------------------------
(* Optional values *)

None == <<>>
Some(v) == <<v>>
IsNone(o) == o = <<>>
Val(o) == o[1]

RECURSIVE Pow(_, _)
Pow(b, e) == IF e = 0 THEN 1 ELSE b * Pow(b, e - 1)

Max(a, b) == IF a >= b THEN a ELSE b

-----------------------------------------------------------------------------
(* schemas.py: IcoConfigModel = {token: TokenConfig, ico: IcoConfig} *)

CurveType == {"fixed", "linear", "exponential", "sigmoid", "custom"}

TokenConfig(name, symbol, total_supply, decimals) ==
    [name |-> name, symbol |-> symbol, total_supply |-> total_supply,
     decimals |-> decimals]

IcoConfig(ico_id, start_time, end_time, curve_type, fixed_price, initial_price, slope, growth_rate, custom_formula, sell_fee_percentage) ==
    [ico_id |-> ico_id, start_time |-> start_time, end_time |-> end_time,
     curve_type |-> curve_type, fixed_price |-> fixed_price,
     initial_price |-> initial_price, slope |-> slope,
     growth_rate |-> growth_rate, custom_formula |-> custom_formula,
     sell_fee_percentage |-> sell_fee_percentage]

IcoConfigModel(token, ico) == [token |-> token, ico |-> ico]

(* The two configurations the server loads at import (the ones the          *)
(* integration tests write): a linear and a fixed-price ICO.  Times are     *)
(* seconds on the model's clock, prices lamports per whole token, the sell  *)
(* fee a percentage.                                                        *)
MainIco ==
    IcoConfigModel(TokenConfig("My Main Token", "MMT", 1000, 0),
                   IcoConfig("main_ico", 0, 60, "linear", None, Some(2),
                             Some(1), None, None, 1))

SecondaryIco ==
    IcoConfigModel(TokenConfig("Secondary Token", "SCT", 500, 1),
                   IcoConfig("secondary_ico", 60, 120, "fixed", Some(30), None,
                             None, None, None, 3))

LoadedIcos == {MainIco, SecondaryIco}

-----------------------------------------------------------------------------
(* ico_manager.py *)

get_ico(ico_id) ==
    IF ico_id \in DOMAIN ico_data THEN Some(ico_data[ico_id]) ELSE None

get_total_tokens_minted(minted, ico_id) ==
    IF ico_id \in DOMAIN minted THEN minted[ico_id] ELSE 0

(* A faulty increment: the counter is assigned the amount, not raised by it *)
increment_tokens_minted_assign(minted, ico_id, amount) ==
    [k \in DOMAIN minted \cup {ico_id} |->
        IF k = ico_id THEN amount ELSE minted[k]]

increment_tokens_minted(minted, ico_id, amount) ==
    IF ico_id \in DOMAIN minted
    THEN [minted EXCEPT ![ico_id] = @ + amount]
    ELSE [k \in DOMAIN minted \cup {ico_id} |->
            IF k = ico_id THEN amount ELSE minted[k]]

-----------------------------------------------------------------------------
(* pricing.py *)

F_LINEAR == "initial_price + slope * total_tokens_minted"
F_DIV_ZERO == "initial_price / 0"
F_UNKNOWN_NAME == "initial_price + bonus"
F_NEGATIVE == "initial_price - slope * total_tokens_minted"

PriceOk(p) == [ok |-> TRUE, price |-> p]
PriceError == [ok |-> FALSE, price |-> 0]

(* A faulty evaluation: a formula that cannot be evaluated is priced at   *)
(* initial_price.                                                           *)
EvalFormula_falls_back(formula, initial_price, slope, total_minted) ==
    CASE formula = F_LINEAR ->
            IF IsNone(slope) THEN PriceOk(initial_price)
            ELSE PriceOk(initial_price + Val(slope) * total_minted)
      [] formula = F_NEGATIVE ->
            IF IsNone(slope) THEN PriceOk(initial_price)
            ELSE PriceOk(initial_price - Val(slope) * total_minted)
      [] OTHER -> PriceOk(initial_price)

(* eval(custom_formula, {"__builtins__": {}}, eval_context): the value of   *)
(* the formula, or an error (an exception of eval).  slope is None in the   *)
(* context when the configuration has none, and arithmetic on None raises.  *)
EvalFormula(formula, initial_price, slope, total_minted) ==
    CASE formula = F_LINEAR ->
            IF IsNone(slope) THEN PriceError
            ELSE PriceOk(initial_price + Val(slope) * total_minted)
      [] formula = F_NEGATIVE ->
            IF IsNone(slope) THEN PriceError
            ELSE PriceOk(initial_price - Val(slope) * total_minted)
      [] OTHER -> PriceError

(* A faulty price curve: the linear curve ignores its slope *)
BasePricePerToken_flat(ico, current_total_minted) ==
    IF ico.curve_type = "linear" /\ ~IsNone(ico.initial_price)
    THEN PriceOk(Val(ico.initial_price))
    ELSE PriceError

(* The try block of calculate_token_price: the per-token price of the       *)
(* curve at current_total_minted, or an error (every exception is re-raised *)
(* as ValueError).                                                          *)
BasePricePerToken(ico, current_total_minted) ==
    CASE ico.curve_type = "fixed" ->
            IF IsNone(ico.fixed_price) THEN PriceError
            ELSE PriceOk(Val(ico.fixed_price))
      [] ico.curve_type = "linear" ->
            IF IsNone(ico.initial_price) \/ IsNone(ico.slope) THEN PriceError
            ELSE PriceOk(Val(ico.initial_price)
                         + Val(ico.slope) * current_total_minted)
      [] ico.curve_type = "exponential" ->
            IF IsNone(ico.initial_price) \/ IsNone(ico.growth_rate)
            THEN PriceError
            ELSE PriceOk(Val(ico.initial_price)
                         * Pow(1 + Val(ico.growth_rate), current_total_minted))
      [] ico.curve_type = "sigmoid" -> PriceError
      [] ico.curve_type = "custom" ->
            IF IsNone(ico.custom_formula) \/ IsNone(ico.initial_price)
            THEN PriceError
            ELSE EvalFormula(Val(ico.custom_formula), Val(ico.initial_price),
                             ico.slope, current_total_minted)
      [] OTHER -> PriceError

(* A faulty clamp: a negative price is kept *)
clamp_price_none(base_price_per_token) == base_price_per_token

(* calculate_token_price: "Ensure price is non-negative" *)
clamp_price(base_price_per_token) == Max(base_price_per_token, 0)

(* A faulty calculate_token_price: the curve is taken at the count after   *)
(* the purchase, current_total_minted + amount.                             *)
calculate_token_price_after_mint(amount, cfg, is_sell, minted) ==
    LET current_total_minted == get_total_tokens_minted(minted, cfg.ico.ico_id)
        base == BasePricePerToken(cfg.ico, current_total_minted + amount)
        base_price_per_token == clamp_price(base.price)
        scale == Pow(10, cfg.token.decimals)
    IN  IF ~base.ok
        THEN [ok |-> FALSE, num |-> 0, den |-> 1,
              read |-> current_total_minted]
        ELSE IF is_sell
        THEN [ok |-> TRUE,
              num |-> Max(0, amount * base_price_per_token
                             * (100 - cfg.ico.sell_fee_percentage)),
              den |-> scale * 100, read |-> current_total_minted]
        ELSE [ok |-> TRUE, num |-> amount * base_price_per_token,
              den |-> scale, read |-> current_total_minted]

(* calculate_token_price(amount, ico, is_sell): the total in SOL as the     *)
(* fraction num/den of lamports, with the minted count it read.             *)
calculate_token_price(amount, cfg, is_sell, minted) ==
    LET current_total_minted == get_total_tokens_minted(minted, cfg.ico.ico_id)
        base == BasePricePerToken(cfg.ico, current_total_minted)
        base_price_per_token == clamp_price(base.price)
        scale == Pow(10, cfg.token.decimals)
    IN  IF ~base.ok
        THEN [ok |-> FALSE, num |-> 0, den |-> 1,
              read |-> current_total_minted]
        ELSE IF is_sell
        THEN [ok |-> TRUE,
              num |-> Max(0, amount * base_price_per_token
                             * (100 - cfg.ico.sell_fee_percentage)),
              den |-> scale * 100, read |-> current_total_minted]
        ELSE [ok |-> TRUE, num |-> amount * base_price_per_token,
              den |-> scale, read |-> current_total_minted]

-----------------------------------------------------------------------------
(* rate_limiter.py *)

(* The cache holds the entries of the client keys the model names           *)
(* (rate_limit_cache) and those of a crowd of crowd.n other keys, which all *)
(* made their one request at crowd.ts.                                      *)
NoCrowd == [n |-> 0, ts |-> 0]

CacheLen(cache, crd) == Cardinality(DOMAIN cache) + crd.n

(* A faulty sweep: an entry whose timestamp is the cutoff time is removed  *)
(* too.                                                                     *)
cleanup_old_entries_inclusive(cache, cutoff_time) ==
    [k \in {ip \in DOMAIN cache : ~(cache[ip][2] <= cutoff_time)} |-> cache[k]]

(* cleanup_old_entries(cutoff_time) *)
cleanup_old_entries(cache, cutoff_time) ==
    [k \in {ip \in DOMAIN cache : ~(cache[ip][2] < cutoff_time)} |-> cache[k]]

cleanup_crowd(crd, cutoff_time) ==
    IF crd.n > 0 /\ crd.ts < cutoff_time THEN NoCrowd ELSE crd

(* A faulty write: the entry is stored with one request more than counted *)
Put_one_more(cache, ip, entry) ==
    [k \in DOMAIN cache \cup {ip} |->
        IF k = ip THEN <<entry[1] + 1, entry[2]>> ELSE cache[k]]

(* rate_limit_cache[ip] = entry *)
Put(cache, ip, entry) ==
    [k \in DOMAIN cache \cup {ip} |-> IF k = ip THEN entry ELSE cache[k]]

(* A faulty check_rate_limit: the count is compared with > instead of >= *)
check_rate_limit_one_more(cache0, crowd0, ip, t, lim) ==
    LET sweep == CacheLen(cache0, crowd0) > CLEANUP_THRESHOLD
        cache == IF sweep THEN cleanup_old_entries(cache0, t - RATE_WINDOW)
                 ELSE cache0
        crd == IF sweep THEN cleanup_crowd(crowd0, t - RATE_WINDOW)
               ELSE crowd0
    IN  IF ip \in DOMAIN cache
        THEN LET count == cache[ip][1]
                 timestamp == cache[ip][2]
             IN  IF t - timestamp >= RATE_WINDOW
                 THEN [allowed |-> TRUE, cache |-> Put(cache, ip, <<1, t>>),
                       crowd |-> crd]
                 ELSE IF count > lim
                 THEN [allowed |-> FALSE, cache |-> cache, crowd |-> crd]
                 ELSE [allowed |-> TRUE,
                       cache |-> Put(cache, ip, <<count + 1, timestamp>>),
                       crowd |-> crd]
        ELSE [allowed |-> TRUE, cache |-> Put(cache, ip, <<1, t>>),
              crowd |-> crd]

(* check_rate_limit(ip) called at time t with RATE_LIMIT_PER_MINUTE = lim:  *)
(* the decision and the cache it leaves.                                    *)
check_rate_limit(cache0, crowd0, ip, t, lim) ==
    LET sweep == CacheLen(cache0, crowd0) > CLEANUP_THRESHOLD
        cache == IF sweep THEN cleanup_old_entries(cache0, t - RATE_WINDOW)
                 ELSE cache0
        crd == IF sweep THEN cleanup_crowd(crowd0, t - RATE_WINDOW)
               ELSE crowd0
    IN  IF ip \in DOMAIN cache
        THEN LET count == cache[ip][1]
                 timestamp == cache[ip][2]
             IN  IF t - timestamp >= RATE_WINDOW
                 THEN [allowed |-> TRUE, cache |-> Put(cache, ip, <<1, t>>),
                       crowd |-> crd]
                 ELSE IF count >= lim
                 THEN [allowed |-> FALSE, cache |-> cache, crowd |-> crd]
                 ELSE [allowed |-> TRUE,
                       cache |-> Put(cache, ip, <<count + 1, timestamp>>),
                       crowd |-> crd]
        ELSE [allowed |-> TRUE, cache |-> Put(cache, ip, <<1, t>>),
              crowd |-> crd]

(* History of the calls RateLimitCall makes for one client key (not         *)
(* program state):                                                          *)
(*   first    time of the key's first call, <<>> before it                  *)
(*   early    the decisions of the calls made less than RATE_WINDOW seconds *)
(*            after the first call, in order                                *)
(*   admits   the times of the admitted calls that lie less than            *)
(*            RATE_WINDOW seconds before the latest admitted call           *)
(*   calls    the number of calls of the key                                *)
(*   last     the latest call: its time, the entry it found (if any), its   *)
(*            decision, and the decision of the limiter that never evicts   *)
(*   ref      the key's entry in a limiter that never evicts: the one       *)
(*            check_rate_limit leaves when the key's entries are all it     *)
(*            holds, so that the sweep never runs                           *)
NoCalls == [first |-> None, early |-> <<>>, admits |-> <<>>, calls |-> 0,
            last |-> None, ref |-> None]

EntryOf(cache, ip) == IF ip \in DOMAIN cache THEN Some(cache[ip]) ELSE None

RlRecord(h, ip, t, cache0, res) ==
    LET first == IF IsNone(h.first) THEN t ELSE Val(h.first)
        newer == SelectSeq(h.admits, LAMBDA a : t - a < RATE_WINDOW)
        own == IF IsNone(h.ref) THEN <<>> ELSE [k \in {ip} |-> Val(h.ref)]
        ref == check_rate_limit(own, NoCrowd, ip, t, limit)
    IN  [first |-> Some(first),
         early |-> IF t - first < RATE_WINDOW
                   THEN Append(h.early, res.allowed) ELSE h.early,
         admits |-> IF res.allowed THEN Append(newer, t) ELSE h.admits,
         calls |-> h.calls + 1,
         last |-> Some([t |-> t, found |-> EntryOf(cache0, ip),
                        allowed |-> res.allowed,
                        ref_allowed |-> ref.allowed]),
         ref |-> Some(ref.cache[ip])]


-----------------------------------------------------------------------------
(* server.py: inputs of buy_tokens *)

(* An ICO id and a payment reference of more than the allowed length. *)
LongIcoId == "ico_0123456789012345678901234567890123456789012345678901234567890123456789012345678901234567890123456789"
LongSignature == "sig_01234567890123456789012345678901234567890123456789012345678901234567890123456789012345678901234567890123456789012345678901234567890123456789012345678901234567890123456789012345678901234567890123456789"

(* The strings Signature.from_string accepts (they stand for base-58       *)
(* encodings of 64 bytes).                                                  *)
SignatureStrings == {"sig1", "sig2"}

(* An amount is the integer n, or, when huge, an integer above             *)
(* MAX_TOKEN_AMOUNT = 10**18, which is beyond the integers of the model.   *)
Amount(n) == [n |-> n, huge |-> FALSE]
HugeAmount == [n |-> 0, huge |-> TRUE]

(* validate_token_operation_params: TRUE when no ValueError is raised *)
validate_token_operation_params(ico_id, amount, payment_transaction, client_ip) ==
    /\ ico_id # ""
    /\ ~(Len(ico_id) > MAX_ICO_ID_LENGTH)
    /\ ~(~amount.huge /\ amount.n <= 0)
    /\ ~amount.huge
    /\ payment_transaction # ""
    /\ ~(Len(payment_transaction) > MAX_TRANSACTION_SIG_LENGTH)
    /\ client_ip # ""

-----------------------------------------------------------------------------
(* One buy_tokens call: its position, its locals and its history.          *)
(*   pc        idle, await_payment, await_blockhash, await_send, polling,   *)
(*             done                                                         *)
(*   required  required_or_expected_sol: [num, den] (see calculate_token_   *)
(*             price), <<>> before pricing                                  *)
(*   priced_at history: the minted count pricing read                       *)
(*   payment   history: what the ledger answered to getTransaction: its     *)
(*             kind and the lamports transferred                            *)
(*   result_note  whether the text returned says that the counter update  *)
(*             failed                                                       *)
(*   calls     history: the ledger calls the request has issued             *)
(*   seen      history: the terminal statuses ("ok", "err") its polls       *)
(*             observed                                                     *)
(*   commit    history: the counter just before and after its own           *)
(*             increment_tokens_minted, <<>> when that did not run          *)
NoCalls4 == [getTransaction |-> 0, getLatestBlockhash |-> 0,
             sendTransaction |-> 0, getSignatureStatuses |-> 0]

IdleReq ==
    [pc |-> "idle", ico_id |-> "", amount |-> Amount(0),
     payment_transaction |-> "", client_ip |-> "", sell |-> FALSE,
     required |-> None, priced_at |-> None, payment |-> None,
     payer |-> None,
     transfer_sig |-> None, elapsed_time |-> 0, outcome |-> "none",
     result_refs |-> {}, result_note |-> FALSE,
     calls |-> NoCalls4, seen |-> {}, commit |-> None,
     commit_raised |-> FALSE]

Outcomes == {"Success", "SellNotImplemented", "NotFound", "RateLimitExceeded",
             "InactiveICO", "InsufficientFunds", "InvalidTransaction",
             "TransactionFailed", "InvalidInput", "UnexpectedError"}

(* Faulty except clauses: the last one, `except Exception`, is missing and *)
(* an exception of another class leaves buy_tokens.                         *)
buy_tokens_except_no_catch_all(exc) ==
    CASE exc = "RateLimitExceededError" -> "RateLimitExceeded"
      [] exc = "InactiveICOError" -> "InactiveICO"
      [] exc = "InsufficientFundsError" -> "InsufficientFunds"
      [] exc = "InvalidTransactionError" -> "InvalidTransaction"
      [] exc = "TransactionFailedError" -> "TransactionFailed"
      [] exc = "ValueError" -> "InvalidInput"
      [] OTHER -> "Unhandled"

(* The except clauses of buy_tokens: the outcome returned for an exception *)
(* class raised inside its try block.                                       *)
buy_tokens_except(exc) ==
    CASE exc = "RateLimitExceededError" -> "RateLimitExceeded"
      [] exc = "InactiveICOError" -> "InactiveICO"
      [] exc = "InsufficientFundsError" -> "InsufficientFunds"
      [] exc = "InvalidTransactionError" -> "InvalidTransaction"
      [] exc = "TransactionFailedError" -> "TransactionFailed"
      [] exc = "ValueError" -> "InvalidInput"
      [] OTHER -> "UnexpectedError"

Finish(q, outcome) == [q EXCEPT !.pc = "done", !.outcome = outcome]

-----------------------------------------------------------------------------
(* server.py: buy_tokens, steps 1 to 6 (no await: one atomic run) *)

(* A faulty window check: the end of the sale is not looked at *)
WindowOpen_start_only(cfg, current_time) ==
    cfg.ico.start_time <= current_time

WindowOpen(cfg, current_time) ==
    cfg.ico.start_time <= current_time /\ current_time <= cfg.ico.end_time

(* A faulty prefix: a sale is carried on as a purchase *)
buy_tokens_prefix_sell_as_buy(ico_id, amount, payment_transaction, client_ip, sell) ==
    LET res == check_rate_limit(rate_limit_cache, crowd, client_ip, now, limit)
        ico == get_ico(ico_id)
        price == calculate_token_price(amount.n, Val(ico), sell,
                                       total_tokens_minted)
        Out(end, limited, priced) ==
            [end |-> end, limited |-> limited, res |-> res,
             priced |-> priced, price |-> IF priced THEN price
                                          ELSE [ok |-> FALSE, num |-> 0,
                                                den |-> 1, read |-> 0]]
    IN  IF ~validate_token_operation_params(ico_id, amount,
                                            payment_transaction, client_ip)
        THEN Out(buy_tokens_except("ValueError"), FALSE, FALSE)
        ELSE IF ~res.allowed
        THEN Out(buy_tokens_except("RateLimitExceededError"), TRUE, FALSE)
        ELSE IF IsNone(ico)
        THEN Out("NotFound", TRUE, FALSE)
        ELSE IF ~WindowOpen(Val(ico), now)
        THEN Out(buy_tokens_except("InactiveICOError"), TRUE, FALSE)
        ELSE IF ~price.ok \/ price.num < 0
        THEN Out(buy_tokens_except("ValueError"), TRUE, TRUE)
        ELSE IF payment_transaction \notin SignatureStrings
        THEN Out(buy_tokens_except("InvalidTransactionError"), TRUE, TRUE)
        ELSE Out("go", TRUE, TRUE)

(* The synchronous prefix of buy_tokens: what it raises or returns before  *)
(* its first ledger call ("go" when it reaches the buy logic), whether it   *)
(* called the rate limiter and with what result, and the price it computed. *)
buy_tokens_prefix(ico_id, amount, payment_transaction, client_ip, sell) ==
    LET res == check_rate_limit(rate_limit_cache, crowd, client_ip, now, limit)
        ico == get_ico(ico_id)
        price == calculate_token_price(amount.n, Val(ico), sell,
                                       total_tokens_minted)
        Out(end, limited, priced) ==
            [end |-> end, limited |-> limited, res |-> res,
             priced |-> priced, price |-> IF priced THEN price
                                          ELSE [ok |-> FALSE, num |-> 0,
                                                den |-> 1, read |-> 0]]
    IN  IF ~validate_token_operation_params(ico_id, amount,
                                            payment_transaction, client_ip)
        THEN Out(buy_tokens_except("ValueError"), FALSE, FALSE)
        ELSE IF ~res.allowed
        THEN Out(buy_tokens_except("RateLimitExceededError"), TRUE, FALSE)
        ELSE IF IsNone(ico)
        THEN Out("NotFound", TRUE, FALSE)
        ELSE IF ~WindowOpen(Val(ico), now)
        THEN Out(buy_tokens_except("InactiveICOError"), TRUE, FALSE)
        ELSE IF ~price.ok \/ price.num < 0
        THEN Out(buy_tokens_except("ValueError"), TRUE, TRUE)
        ELSE IF payment_transaction \notin SignatureStrings
        THEN Out(buy_tokens_except("InvalidTransactionError"), TRUE, TRUE)
        ELSE IF sell
        THEN Out("SellNotImplemented", TRUE, TRUE)
        ELSE Out("go", TRUE, TRUE)

BumpCall(q, method) == [q EXCEPT !.calls[method] = @ + 1]

(* A faulty start: only a request that goes on to the ledger is counted   *)
(* by the rate limiter.                                                     *)
BuyStart_counts_only_go(r, ico_id, amount, payment_transaction, client_ip, sell) ==
    /\ req[r].pc = "idle"
    /\ LET p == buy_tokens_prefix(ico_id, amount, payment_transaction,
                                  client_ip, sell)
           q0 == [req[r] EXCEPT !.ico_id = ico_id, !.amount = amount,
                      !.payment_transaction = payment_transaction,
                      !.client_ip = client_ip, !.sell = sell,
                      !.required = IF p.priced /\ p.price.ok
                                   THEN Some([num |-> p.price.num,
                                              den |-> p.price.den])
                                   ELSE None,
                      !.priced_at = IF p.priced THEN Some(p.price.read)
                                    ELSE None]
       IN  /\ req' = [req EXCEPT ![r] =
                        IF p.end = "go"
                        THEN BumpCall([q0 EXCEPT !.pc = "await_payment"],
                                      "getTransaction")
                        ELSE Finish(q0, p.end)]
           /\ IF p.limited /\ p.end = "go"
              THEN /\ rate_limit_cache' = p.res.cache
                   /\ crowd' = p.res.crowd
              ELSE UNCHANGED <<rate_limit_cache, crowd>>
    /\ UNCHANGED <<price_calls, discount_calls, config, ico_data, total_tokens_minted, config_files, limit, now,
                   ticks, rl, last_define>>

(* A client calls buy_tokens: request r runs up to its first await. *)
BuyStart(r, ico_id, amount, payment_transaction, client_ip, sell) ==
    /\ req[r].pc = "idle"
    /\ LET p == buy_tokens_prefix(ico_id, amount, payment_transaction,
                                  client_ip, sell)
           q0 == [req[r] EXCEPT !.ico_id = ico_id, !.amount = amount,
                      !.payment_transaction = payment_transaction,
                      !.client_ip = client_ip, !.sell = sell,
                      !.required = IF p.priced /\ p.price.ok
                                   THEN Some([num |-> p.price.num,
                                              den |-> p.price.den])
                                   ELSE None,
                      !.priced_at = IF p.priced THEN Some(p.price.read)
                                    ELSE None]
       IN  /\ req' = [req EXCEPT ![r] =
                        IF p.end = "go"
                        THEN BumpCall([q0 EXCEPT !.pc = "await_payment"],
                                      "getTransaction")
                        ELSE Finish(q0, p.end)]
           /\ IF p.limited
              THEN /\ rate_limit_cache' = p.res.cache
                   /\ crowd' = p.res.crowd
              ELSE UNCHANGED <<rate_limit_cache, crowd>>
    /\ UNCHANGED <<price_calls, discount_calls, config, ico_data, total_tokens_minted, config_files, limit, now,
                   ticks, rl, last_define>>

(* Exception classes none of the named except clauses of buy_tokens        *)
(* catches.                                                                 *)
OtherExceptions == {"RuntimeError"}

(* A client calls buy_tokens and, the parameters being valid, a call inside *)
(* the try block (the rate limiter, at step 2) raises exc before anything   *)
(* is written.                                                              *)
BuyStartRaises(r, ico_id, amount, payment_transaction, client_ip, sell, exc) ==
    /\ req[r].pc = "idle"
    /\ validate_token_operation_params(ico_id, amount, payment_transaction,
                                       client_ip)
    /\ req' = [req EXCEPT ![r] =
                 Finish([@ EXCEPT !.ico_id = ico_id, !.amount = amount,
                             !.payment_transaction = payment_transaction,
                             !.client_ip = client_ip, !.sell = sell],
                        buy_tokens_except(exc))]
    /\ UNCHANGED <<price_calls, discount_calls, config, ico_data, total_tokens_minted, config_files,
                   rate_limit_cache, crowd, limit, now, ticks, rl, last_define>>

-----------------------------------------------------------------------------
(* solana_utils.py: validate_payment_transaction *)

Payers == {"payer1"}

(* What the ledger answers to getTransaction.                               *)
(*   http_error          the POST fails or raise_for_status raises          *)
(*   rpc_error           the answer has an "error"                          *)
(*   no_result           the answer has no "result"                         *)
(*   meta_err            the transaction failed on chain                    *)
(*   not_system_program  instruction 0 is not of the system program         *)
(*   not_transfer        instruction 0 is not a transfer                    *)
(*   malformed           an expected key is missing                         *)
(*   wrong_destination   a transfer to another wallet than ICO_WALLET       *)
(*   transfer            a transfer of `lamports` from `source` to          *)
(*                       ICO_WALLET                                         *)
PaymentFailures == {"http_error", "rpc_error", "no_result", "meta_err",
                    "not_system_program", "not_transfer", "malformed",
                    "wrong_destination"}

PaymentAnswers ==
    {[kind |-> k, lamports |-> 0, source |-> "payer1"] : k \in PaymentFailures}
    \cup {[kind |-> "transfer", lamports |-> l, source |-> s] :
            l \in 0..MaxLamports, s \in Payers}

(* The answers the specifications about something other than the payment  *)
(* draw from: a full payment, an empty one, a transfer to somebody else.    *)
SamplePayments ==
    {a \in PaymentAnswers : /\ a.kind \in {"transfer", "wrong_destination"}
                            /\ a.lamports \in {0, MaxLamports}}

(* A faulty try block: the amount transferred is not compared with the     *)
(* price.                                                                   *)
payment_try_block_any_amount(answer, required_sol) ==
    CASE answer.kind = "http_error" -> "HTTPStatusError"
      [] answer.kind \in {"rpc_error", "no_result", "meta_err",
                          "not_system_program", "not_transfer",
                          "wrong_destination"} -> "InvalidTransactionError"
      [] answer.kind = "malformed" -> "KeyError"
      [] answer.kind = "transfer" -> "none"

(* The exception class raised inside the try block of                      *)
(* validate_payment_transaction, "none" when it reaches `return payer`.     *)
payment_try_block(answer, required_sol) ==
    CASE answer.kind = "http_error" -> "HTTPStatusError"
      [] answer.kind \in {"rpc_error", "no_result", "meta_err",
                          "not_system_program", "not_transfer",
                          "wrong_destination"} -> "InvalidTransactionError"
      [] answer.kind = "malformed" -> "KeyError"
      [] answer.kind = "transfer" ->
            IF answer.lamports * required_sol.den < required_sol.num
            THEN "InsufficientFundsError"
            ELSE "none"

(* Faulty except clauses: the exception is swallowed *)
payment_except_swallows(raised) == "none"

(* The except clauses of validate_payment_transaction: HTTPStatusError,    *)
(* KeyError and, last, Exception, each raising InvalidTransactionError.     *)
payment_except(raised) ==
    CASE raised = "HTTPStatusError" -> "InvalidTransactionError"
      [] raised = "KeyError" -> "InvalidTransactionError"
      [] OTHER -> "InvalidTransactionError"

(* validate_payment_transaction(client, tx_signature, required_sol): the   *)
(* exception it raises ("none" when it returns) and the payer it returns.   *)
validate_payment_transaction(answer, required_sol) ==
    LET raised == payment_try_block(answer, required_sol)
    IN  IF raised = "none"
        THEN [raises |-> "none", payer |-> Some(answer.source)]
        ELSE [raises |-> payment_except(raised), payer |-> None]

(* A faulty response: a payment reference that another request has        *)
(* already had validated is refused.                                        *)
PaymentResponse_consumes_reference(r, answer) ==
    /\ req[r].pc = "await_payment"
    /\ LET v == validate_payment_transaction(answer, Val(req[r].required))
           q == [req[r] EXCEPT !.payment = Some([kind |-> answer.kind,
                                                 lamports |-> answer.lamports])]
           consumed == \E s \in DOMAIN req \ {r} :
                          /\ req[s].payment_transaction = q.payment_transaction
                          /\ ~IsNone(req[s].payer)
       IN  req' = [req EXCEPT ![r] =
                IF v.raises # "none"
                THEN Finish(q, buy_tokens_except(v.raises))
                ELSE IF consumed
                THEN Finish(q, buy_tokens_except("InvalidTransactionError"))
                ELSE IF IsNone(get_ico(q.ico_id))
                THEN Finish([q EXCEPT !.payer = v.payer],
                            buy_tokens_except("ValueError"))
                ELSE BumpCall([q EXCEPT !.payer = v.payer,
                                        !.pc = "await_blockhash"],
                              "getLatestBlockhash")]
    /\ UNCHANGED <<price_calls, discount_calls, config, ico_data, total_tokens_minted, config_files,
                   rate_limit_cache, crowd, limit, now, ticks, rl, last_define>>

(* The ledger answers the getTransaction of request r; on a valid payment  *)
(* buy_tokens goes on into create_and_send_token_transfer, up to its        *)
(* getLatestBlockhash call.                                                 *)
PaymentResponse(r, answer) ==
    /\ req[r].pc = "await_payment"
    /\ LET v == validate_payment_transaction(answer, Val(req[r].required))
           q == [req[r] EXCEPT !.payment = Some([kind |-> answer.kind,
                                                 lamports |-> answer.lamports])]
       IN  req' = [req EXCEPT ![r] =
                IF v.raises # "none"
                THEN Finish(q, buy_tokens_except(v.raises))
                ELSE IF IsNone(get_ico(q.ico_id))
                THEN Finish([q EXCEPT !.payer = v.payer],
                            buy_tokens_except("ValueError"))
                ELSE BumpCall([q EXCEPT !.payer = v.payer,
                                        !.pc = "await_blockhash"],
                              "getLatestBlockhash")]
    /\ UNCHANGED <<price_calls, discount_calls, config, ico_data, total_tokens_minted, config_files,
                   rate_limit_cache, crowd, limit, now, ticks, rl, last_define>>

-----------------------------------------------------------------------------
(* solana_utils.py: create_and_send_token_transfer *)

RpcAnswers == {"ok", "http_error", "malformed"}

(* A faulty step: the counter is incremented when the blockhash is asked   *)
(* for, and stays so when the transfer fails.                               *)
BlockhashResponse_counts(r, answer) ==
    /\ req[r].pc = "await_blockhash"
    /\ req' = [req EXCEPT ![r] =
                IF answer = "ok"
                THEN BumpCall([@ EXCEPT !.pc = "await_send"], "sendTransaction")
                ELSE Finish(@, buy_tokens_except("TransactionFailedError"))]
    /\ total_tokens_minted' =
          increment_tokens_minted(total_tokens_minted, req[r].ico_id,
                                  req[r].amount.n)
    /\ UNCHANGED <<price_calls, discount_calls, config, ico_data, config_files,
                   rate_limit_cache, crowd, limit, now, ticks, rl, last_define>>

(* The ledger answers getLatestBlockhash; with a blockhash the transfer is *)
(* signed and submitted (sendTransaction).                                  *)
BlockhashResponse(r, answer) ==
    /\ req[r].pc = "await_blockhash"
    /\ req' = [req EXCEPT ![r] =
                IF answer = "ok"
                THEN BumpCall([@ EXCEPT !.pc = "await_send"], "sendTransaction")
                ELSE Finish(@, buy_tokens_except("TransactionFailedError"))]
    /\ UNCHANGED <<price_calls, discount_calls, config, ico_data, total_tokens_minted, config_files,
                   rate_limit_cache, crowd, limit, now, ticks, rl, last_define>>

(* The signature the ledger returns for the transfer request r submits. *)
TransferSignature(r) == "transfer_of_" \o r

(* A faulty step: a transfer the ledger did not accept is submitted again *)
SendResponse_retries(r, answer) ==
    /\ req[r].pc = "await_send"
    /\ req' = [req EXCEPT ![r] =
                IF answer = "ok"
                THEN [@ EXCEPT !.pc = "polling", !.elapsed_time = 0,
                               !.transfer_sig = Some(TransferSignature(r))]
                ELSE BumpCall(@, "sendTransaction")]
    /\ UNCHANGED <<price_calls, discount_calls, config, ico_data, total_tokens_minted, config_files,
                   rate_limit_cache, crowd, limit, now, ticks, rl, last_define>>

(* The ledger answers sendTransaction; with a signature the confirmation   *)
(* loop starts (confirmed = False, elapsed_time = 0) and sleeps.            *)
SendResponse(r, answer) ==
    /\ req[r].pc = "await_send"
    /\ req' = [req EXCEPT ![r] =
                IF answer = "ok"
                THEN [@ EXCEPT !.pc = "polling", !.elapsed_time = 0,
                               !.transfer_sig = Some(TransferSignature(r))]
                ELSE Finish(@, buy_tokens_except("TransactionFailedError"))]
    /\ UNCHANGED <<price_calls, discount_calls, config, ico_data, total_tokens_minted, config_files,
                   rate_limit_cache, crowd, limit, now, ticks, rl, last_define>>

(* What getSignatureStatuses answers for the transfer.                      *)
(*   ok         confirmationStatus confirmed or finalized, err null         *)
(*   err        confirmationStatus confirmed or finalized, err set          *)
(*   processed  a status with another confirmationStatus                    *)
(*   null       no status                                                   *)
(*   error      the POST fails or the answer is malformed                   *)
StatusAnswers == {"ok", "err", "processed", "null", "error"}

(* A faulty round: when the timeout is reached the transfer is taken as    *)
(* confirmed.                                                               *)
poll_round_timeout_confirms(answer, elapsed_time) ==
    IF answer = "ok" \/ elapsed_time >= POLL_TIMEOUT THEN "confirmed"
    ELSE "again"

(* One round of the confirmation loop, elapsed_time already advanced:      *)
(* "confirmed" (the loop ends, the signature is returned), "again" (the     *)
(* loop goes on) or "raise" (TransactionFailedError leaves the function).   *)
(* An exception raised inside the round's try block, the one for an         *)
(* on-chain error included, is caught by its except clause, which raises    *)
(* only when elapsed_time has reached the timeout.                          *)
poll_round(answer, elapsed_time) ==
    LET raised_in_try ==
            CASE answer = "ok" -> FALSE
              [] answer = "err" -> TRUE
              [] answer = "processed" -> elapsed_time >= POLL_TIMEOUT
              [] answer = "null" -> elapsed_time >= POLL_TIMEOUT
              [] answer = "error" -> TRUE
    IN  IF answer = "ok" THEN "confirmed"
        ELSE IF raised_in_try /\ elapsed_time >= POLL_TIMEOUT THEN "raise"
        ELSE IF elapsed_time < POLL_TIMEOUT THEN "again"
        ELSE "raise"


(* Step 9 of buy_tokens: increment_tokens_minted inside try/except          *)
(* Exception, which logs and goes on.  fault says whether the call raises:  *)
(* "none", "before" it has written the counter, or "after" (its logging).   *)
CommitFaults == {"none", "before", "after"}

(* A faulty step 9: the amount is added to the counter of every ICO *)
state_commit_every_ico(minted, ico_id, amount, fault) ==
    [minted |-> IF fault = "before" THEN minted
                ELSE [k \in DOMAIN minted |-> minted[k] + amount],
     raised |-> fault # "none"]

state_commit(minted, ico_id, amount, fault) ==
    [minted |-> IF fault = "before" THEN minted
                ELSE increment_tokens_minted(minted, ico_id, amount),
     raised |-> fault # "none"]

(* A faulty step 9: the exception of the counter update is not caught and  *)
(* reaches the last except clause of buy_tokens.                            *)
after_transfer_outcome_raise(commit_raised) ==
    IF commit_raised THEN "UnexpectedError" ELSE "Success"

(* Steps 9 and 10 of buy_tokens: the outcome once the transfer is          *)
(* confirmed, whether or not the counter update raised.                     *)
after_transfer_outcome(commit_raised) == "Success"

(* A faulty success message: the payment reference is left out *)
success_message_refs_transfer_only(payment_transaction, token_transfer_tx_hash) ==
    {token_transfer_tx_hash}

(* Step 10 of buy_tokens: the transaction references the success message   *)
(* holds.                                                                   *)
success_message_refs(payment_transaction, token_transfer_tx_hash) ==
    {payment_transaction, token_transfer_tx_hash}

(* A faulty loop head: elapsed_time is not advanced *)
sleep_and_advance_stuck(elapsed_time) == elapsed_time

(* The head of the loop body: await asyncio.sleep(check_interval);         *)
(* elapsed_time += check_interval                                           *)
sleep_and_advance(elapsed_time) == elapsed_time + CHECK_INTERVAL

(* Step 10 of buy_tokens: whether the success message says that the       *)
(* counter update of step 9 failed.  The message is built from the amount, *)
(* the price and the two references alone.                                  *)
success_message_note(commit_raised) == FALSE

(* One round of the confirmation loop of request r: sleep, ask for the      *)
(* status, decide.  When the transfer is confirmed the function returns and *)
(* buy_tokens runs steps 9 and 10 without another await.                    *)
Poll(r, answer, fault) ==
    /\ req[r].pc = "polling"
    /\ LET q == req[r]
           elapsed_time == sleep_and_advance(q.elapsed_time)
           round == poll_round(answer, elapsed_time)
           q1 == BumpCall([q EXCEPT !.elapsed_time = elapsed_time,
                                    !.seen = @ \cup ({answer} \cap
                                                     {"ok", "err"})],
                          "getSignatureStatuses")
           c == state_commit(total_tokens_minted, q.ico_id, q.amount.n, fault)
       IN  CASE round = "again" ->
                  /\ req' = [req EXCEPT ![r] = q1]
                  /\ UNCHANGED total_tokens_minted
             [] round = "raise" ->
                  /\ req' = [req EXCEPT ![r] =
                        Finish(q1, buy_tokens_except("TransactionFailedError"))]
                  /\ UNCHANGED total_tokens_minted
             [] round = "confirmed" ->
                  /\ total_tokens_minted' = c.minted
                  /\ req' = [req EXCEPT ![r] =
                        Finish([q1 EXCEPT
                            !.commit =
                                IF fault = "before" THEN None
                                ELSE Some([before |->
                                             get_total_tokens_minted(
                                                 total_tokens_minted, q.ico_id),
                                           after |->
                                             get_total_tokens_minted(
                                                 c.minted, q.ico_id)]),
                            !.commit_raised = c.raised,
                            !.result_note =
                                success_message_note(c.raised),
                            !.result_refs = success_message_refs(
                                q.payment_transaction, Val(q.transfer_sig))],
                          after_transfer_outcome(c.raised))]
    /\ UNCHANGED <<price_calls, discount_calls, config, ico_data, config_files, rate_limit_cache, crowd, limit,
                   now, ticks, rl, last_define>>

-----------------------------------------------------------------------------
(* ico_manager.py add_or_update_ico and server.py create_ico *)

(* A faulty add_or_update_ico: the counter of the ICO starts again at 0     *)
(* whenever the ICO is defined.                                             *)
add_or_update_ico_reset(ico_config, save_ok) ==
    LET ico_id == ico_config.ico.ico_id
    IN  [ico_data |-> [k \in DOMAIN ico_data \cup {ico_id} |->
                          IF k = ico_id THEN ico_config ELSE ico_data[k]],
         total_tokens_minted |->
             [k \in DOMAIN total_tokens_minted \cup {ico_id} |->
                 IF k = ico_id THEN 0 ELSE total_tokens_minted[k]],
         config_files |->
             IF save_ok
             THEN [k \in DOMAIN config_files \cup {ico_id} |->
                     IF k = ico_id THEN ico_config ELSE config_files[k]]
             ELSE config_files,
         success |-> save_ok]

(* add_or_update_ico(ico_config): the registry, the counters and the       *)
(* configuration files it leaves, and what it returns.  save_ok says        *)
(* whether writing the file succeeds.                                       *)
add_or_update_ico(ico_config, save_ok) ==
    LET ico_id == ico_config.ico.ico_id
        data == [k \in DOMAIN ico_data \cup {ico_id} |->
                    IF k = ico_id THEN ico_config ELSE ico_data[k]]
        minted == IF ico_id \notin DOMAIN total_tokens_minted
                  THEN [k \in DOMAIN total_tokens_minted \cup {ico_id} |->
                          IF k = ico_id THEN 0 ELSE total_tokens_minted[k]]
                  ELSE total_tokens_minted
        files == IF save_ok
                 THEN [k \in DOMAIN config_files \cup {ico_id} |->
                         IF k = ico_id THEN ico_config ELSE config_files[k]]
                 ELSE config_files
    IN  [ico_data |-> data, total_tokens_minted |-> minted,
         config_files |-> files, success |-> save_ok]

(* What create_ico is given: a string that is empty, too large, no JSON or *)
(* no IcoConfigModel, or the JSON of the configuration cfg.                 *)
DefineText(kind) == [kind |-> kind, cfg |-> MainIco]
DefineConfig(cfg) == [kind |-> "config", cfg |-> cfg]

(* Faulty checks: the total supply is not looked at *)
create_ico_valid_any_supply(input) ==
    /\ input.kind = "config"
    /\ ~(input.cfg.ico.start_time >= input.cfg.ico.end_time)
    /\ ~(input.cfg.token.decimals < 0 \/ input.cfg.token.decimals > 18)

(* The checks of create_ico before add_or_update_ico: TRUE when none        *)
(* raises.                                                                  *)
create_ico_valid(input) ==
    /\ input.kind = "config"
    /\ ~(input.cfg.ico.start_time >= input.cfg.ico.end_time)
    /\ ~(input.cfg.token.decimals < 0 \/ input.cfg.token.decimals > 18)
    /\ ~(input.cfg.token.total_supply <= 0)

(* A faulty create_ico: the counter of the defined ICO starts again at 0 *)
CreateIco_resets(input, save_ok) ==
    IF create_ico_valid(input)
    THEN LET a == add_or_update_ico(input.cfg, save_ok)
         IN  /\ ico_data' = a.ico_data
             /\ total_tokens_minted' =
                   [a.total_tokens_minted EXCEPT ![input.cfg.ico.ico_id] = 0]
             /\ config_files' = a.config_files
             /\ last_define' = [ico_id |-> input.cfg.ico.ico_id,
                                result |-> IF a.success THEN "created"
                                           ELSE "save_error",
                                input |-> Some(input)]
             /\ UNCHANGED <<price_calls, discount_calls, config, rate_limit_cache, crowd, limit, now, ticks,
                            req, rl>>
    ELSE /\ last_define' = [ico_id |-> "", result |-> "rejected",
                            input |-> Some(input)]
         /\ UNCHANGED <<price_calls, discount_calls, config, ico_data, total_tokens_minted, config_files,
                        rate_limit_cache, crowd, limit, now, ticks, req, rl>>

(* server.py create_ico: the tool call with its checks and                 *)
(* add_or_update_ico                                                        *)
CreateIco(input, save_ok) ==
    IF create_ico_valid(input)
    THEN LET a == add_or_update_ico(input.cfg, save_ok)
         IN  /\ ico_data' = a.ico_data
             /\ total_tokens_minted' = a.total_tokens_minted
             /\ config_files' = a.config_files
             /\ last_define' = [ico_id |-> input.cfg.ico.ico_id,
                                result |-> IF a.success THEN "created"
                                           ELSE "save_error",
                                input |-> Some(input)]
             /\ UNCHANGED <<price_calls, discount_calls, config, rate_limit_cache, crowd, limit, now, ticks,
                            req, rl>>
    ELSE /\ last_define' = [ico_id |-> "", result |-> "rejected",
                            input |-> Some(input)]
         /\ UNCHANGED <<price_calls, discount_calls, config, ico_data, total_tokens_minted, config_files,
                        rate_limit_cache, crowd, limit, now, ticks, req, rl>>

(* server.py get_ico_info: reads the registry, changes nothing *)
GetIcoInfo(ico_id) ==
    /\ ico_id # "" /\ ~(Len(ico_id) > 100)
    /\ UNCHANGED vars

(* server.py get_discount.  The discount is a fraction num/den; the text   *)
(* returned shows it as a percentage with two decimals, written here as a   *)
(* number of hundredths of a percent.                                       *)
DISCOUNT_BASE_TOKENS == 1000
DISCOUNT_RATE == [num |-> 1, den |-> 100]
MAX_DISCOUNT_PERCENTAGE == [num |-> 1, den |-> 10]

(* A faulty min: the first fraction whatever the second *)
MinFraction_first(x, y) == x

(* min of two fractions with positive denominators *)
MinFraction(x, y) == IF x.num * y.den <= y.num * x.den THEN x ELSE y

(* f"{x*100:.2f}" for the fraction x >= 0: the nearest number of           *)
(* hundredths; the binary floating point value of a fraction that lies     *)
(* halfway between two of them may fall on either side (tie_up).            *)
format_percent_2f(x, tie_up) ==
    LET n == x.num * 10000
        q == n \div x.den
        r == n % x.den
    IN  IF 2 * r > x.den \/ (2 * r = x.den /\ tie_up) THEN q + 1 ELSE q

DiscountError == [kind |-> "error", symbol |-> "", percent_2f |-> 0]
DiscountNotFound == [kind |-> "not_found", symbol |-> "", percent_2f |-> 0]

get_discount(ico_id, amount, tie_up) ==
    IF ico_id = "" \/ Len(ico_id) > MAX_ICO_ID_LENGTH THEN DiscountError
    ELSE IF ~amount.huge /\ amount.n < 0 THEN DiscountError
    ELSE IF amount.huge THEN DiscountError
    ELSE IF IsNone(get_ico(ico_id)) THEN DiscountNotFound
    ELSE LET ico == Val(get_ico(ico_id))
             discount_percentage ==
                 MinFraction([num |-> amount.n * DISCOUNT_RATE.num,
                              den |-> Pow(10, ico.token.decimals)
                                      * DISCOUNT_BASE_TOKENS
                                      * DISCOUNT_RATE.den],
                             MAX_DISCOUNT_PERCENTAGE)
         IN  [kind |-> "discount", symbol |-> ico.token.symbol,
              percent_2f |-> format_percent_2f(discount_percentage, tie_up)]

MaxDiscountCalls == 2    \* get_discount calls per behaviour

(* A client calls get_discount.  Floating point arithmetic is             *)
(* deterministic: a call repeated with the same arguments falls on the     *)
(* same side of a tie.                                                      *)
GetDiscount(ico_id, amount, tie_up) ==
    /\ Cardinality(discount_calls) < MaxDiscountCalls
    /\ \A c \in discount_calls :
          (c.ico_id = ico_id /\ c.amount = amount)
          => c.result = get_discount(ico_id, amount, tie_up)
    /\ discount_calls' = discount_calls \cup
          {[ico_id |-> ico_id, amount |-> amount,
            result |-> get_discount(ico_id, amount, tie_up)]}
    /\ UNCHANGED <<price_calls, config, ico_data, total_tokens_minted,
                   config_files, rate_limit_cache, crowd, limit, now, ticks,
                   req, rl, last_define>>

(* calculate_token_price is called on its own with the configuration cfg   *)
(* while the counter of its ICO stands at supply.  price_calls keeps the    *)
(* last two such calls.                                                     *)
PriceCall(cfg, supply, amount, is_sell) ==
    LET minted == [k \in {cfg.ico.ico_id} |-> supply]
        call == [cfg |-> cfg, supply |-> supply, amount |-> amount,
                 is_sell |-> is_sell,
                 result |-> calculate_token_price(amount, cfg, is_sell,
                                                  minted)]
    IN  /\ price_calls' = IF Len(price_calls) < 2
                          THEN Append(price_calls, call)
                          ELSE <<price_calls[2], call>>
        /\ UNCHANGED <<discount_calls, config, ico_data, total_tokens_minted,
                       config_files, rate_limit_cache, crowd, limit, now,
                       ticks, req, rl, last_define>>

-----------------------------------------------------------------------------
(* Configurations given to create_ico *)

NewIco ==
    IcoConfigModel(TokenConfig("TestToken", "TT", 1000, 0),
                   IcoConfig("test_ico_created", 0, 120, "fixed", Some(1), None,
                             None, None, None, 1))

(* main_ico defined again, with another token and a steeper curve *)
MainIcoAgain ==
    IcoConfigModel(TokenConfig("Other Token", "OTH", 2000, 1),
                   IcoConfig("main_ico", 0, 120, "linear", None, Some(3),
                             Some(2), None, None, 1))

BadTimesIco ==
    IcoConfigModel(TokenConfig("TestToken", "TT", 1000, 0),
                   IcoConfig("test_ico_created", 60, 60, "fixed", Some(1), None,
                             None, None, None, 1))

BadDecimalsIco ==
    IcoConfigModel(TokenConfig("TestToken", "TT", 1000, 19),
                   IcoConfig("test_ico_created", 0, 120, "fixed", Some(1), None,
                             None, None, None, 1))

BadSupplyIco ==
    IcoConfigModel(TokenConfig("TestToken", "TT", 0, 0),
                   IcoConfig("test_ico_created", 0, 120, "fixed", Some(1), None,
                             None, None, None, 1))

(* A linear curve without slope: the schema makes every curve field        *)
(* optional.                                                                *)
NoSlopeIco ==
    IcoConfigModel(TokenConfig("TestToken", "TT", 1000, 0),
                   IcoConfig("test_ico_created", 0, 120, "linear", None,
                             Some(1), None, None, None, 1))

-----------------------------------------------------------------------------
(* The clock and the rate limiter on its own *)

Tick(d) ==
    /\ ticks < MaxTicks
    /\ now' = now + d
    /\ ticks' = ticks + 1
    /\ UNCHANGED <<price_calls, discount_calls, config, ico_data, total_tokens_minted, config_files,
                   rate_limit_cache, crowd, limit, req, rl, last_define>>

ClientKeys == {"ip1", "ip2"}

MaxCalls == 4        \* check_rate_limit calls per client key

(* A faulty call: a rejected request is counted too *)
RateLimitCall_counts_rejected(ip) ==
    /\ rl[ip].calls < MaxCalls
    /\ LET res == check_rate_limit(rate_limit_cache, crowd, ip, now, limit)
       IN  /\ rate_limit_cache' =
                 IF res.allowed THEN res.cache
                 ELSE Put(res.cache, ip, <<res.cache[ip][1] + 1,
                                           res.cache[ip][2]>>)
           /\ crowd' = res.crowd
           /\ rl' = [rl EXCEPT ![ip] =
                        RlRecord(@, ip, now, rate_limit_cache, res)]
    /\ UNCHANGED <<price_calls, discount_calls, config, ico_data, total_tokens_minted, config_files, limit, now,
                   ticks, req, last_define>>

(* A caller asks the rate limiter about ip. *)
RateLimitCall(ip) ==
    /\ rl[ip].calls < MaxCalls
    /\ LET res == check_rate_limit(rate_limit_cache, crowd, ip, now, limit)
       IN  /\ rate_limit_cache' = res.cache
           /\ crowd' = res.crowd
           /\ rl' = [rl EXCEPT ![ip] =
                        RlRecord(@, ip, now, rate_limit_cache, res)]
    /\ UNCHANGED <<price_calls, discount_calls, config, ico_data, total_tokens_minted, config_files, limit, now,
                   ticks, req, last_define>>

(* A faulty burst: its sweeps remove every entry, expired or not *)
CrowdBurst_sweeps_all ==
    /\ crowd.n = 0
    /\ crowd' = [n |-> CLEANUP_THRESHOLD + 1, ts |-> now]
    /\ rate_limit_cache' = <<>>
    /\ UNCHANGED <<price_calls, discount_calls, config, ico_data, total_tokens_minted, config_files, limit, now,
                   ticks, req, rl, last_define>>

(* CLEANUP_THRESHOLD + 1 other clients, none of them tracked, make one      *)
(* request each at the same second: each call adds an entry (1, now), and   *)
(* the calls that find more than CLEANUP_THRESHOLD entries sweep first.     *)
CrowdBurst ==
    /\ crowd.n = 0
    /\ crowd' = [n |-> CLEANUP_THRESHOLD + 1, ts |-> now]
    /\ rate_limit_cache' =
          IF Cardinality(DOMAIN rate_limit_cache) + CLEANUP_THRESHOLD
                > CLEANUP_THRESHOLD
          THEN cleanup_old_entries(rate_limit_cache, now - RATE_WINDOW)
          ELSE rate_limit_cache
    /\ UNCHANGED <<price_calls, discount_calls, config, ico_data, total_tokens_minted, config_files, limit, now,
                   ticks, req, rl, last_define>>

-----------------------------------------------------------------------------
(* config.py: the options read from the environment when the module is     *)
(* imported.  An option is None when the variable is not set; the text of  *)
(* an integer option is IntText(n) or text that int() rejects.  The text   *)
(* of ICO_WALLET_SEED is the sequence of its comma-separated parts.        *)

IntText(n) == [int |-> TRUE, v |-> n]
NotInt == [int |-> FALSE, v |-> 0]

EnvOk(v) == [ok |-> TRUE, value |-> v]
EnvRaises == [ok |-> FALSE, value |-> 0]

(* os.getenv(key, default) *)
getenv(value, default) == IF IsNone(value) THEN default ELSE Val(value)

(* config.py _get_env_str: a required option must not be empty *)
get_env_str(value, default, required) ==
    LET v == getenv(value, default)
    IN  IF required /\ v = "" THEN EnvRaises ELSE EnvOk(v)

(* config.py _get_env_int: ConfigurationError for text that is not an      *)
(* integer and for an integer outside min_val..max_val                      *)
get_env_int(value, default, min_val, max_val) ==
    LET t == getenv(value, IntText(default))
    IN  IF ~t.int THEN EnvRaises
        ELSE IF ~IsNone(min_val) /\ t.v < Val(min_val) THEN EnvRaises
        ELSE IF ~IsNone(max_val) /\ t.v > Val(max_val) THEN EnvRaises
        ELSE EnvOk(t.v)

SEED_LENGTH == 32

SeedOf(n, part) == [i \in 1..n |-> part]

(* Keypair.from_seed(bytes([1] * 32)) *)
DefaultInsecureSeed == [i \in 1..SEED_LENGTH |-> 1]

(* The try block of _load_ico_wallet raises ValueError: the part count     *)
(* is not 32, int() rejects a part, or bytes() rejects a value.             *)
seed_parse_raises(seed_parts) ==
    \/ Len(seed_parts) # SEED_LENGTH
    \/ \E i \in 1..Len(seed_parts) : ~seed_parts[i].int
    \/ \E i \in 1..Len(seed_parts) : seed_parts[i].v \notin 0..255

(* config.py _load_ico_wallet: the keypair of the seed; the except clause  *)
(* logs a warning and returns the keypair of the default seed.  A keypair   *)
(* is written as the seed it is derived from.                               *)
load_ico_wallet(seed) ==
    LET seed_parts == getenv(seed, SeedOf(SEED_LENGTH, IntText(1)))
    IN  IF seed_parse_raises(seed_parts) THEN EnvOk(DefaultInsecureSeed)
        ELSE EnvOk([i \in 1..SEED_LENGTH |-> seed_parts[i].v])

(* config.py, the module block: the options are read in order, the first   *)
(* ConfigurationError ends the import.                                      *)
load_configuration(env) ==
    LET RPC_ENDPOINT == get_env_str(env.RPC_ENDPOINT, "http://localhost:8899",
                                    TRUE)
        DEFAULT_TOKEN_DECIMALS ==
            get_env_int(env.TOKEN_DECIMALS, 9, Some(0), Some(18))
        ICO_WALLET == load_ico_wallet(env.ICO_WALLET_SEED)
        RATE_LIMIT_PER_MINUTE ==
            get_env_int(env.RATE_LIMIT_PER_MINUTE, 10, Some(1), Some(1000))
        ok == /\ RPC_ENDPOINT.ok /\ DEFAULT_TOKEN_DECIMALS.ok
              /\ ICO_WALLET.ok /\ RATE_LIMIT_PER_MINUTE.ok
    IN  [ok |-> ok,
         ICO_WALLET |-> IF ok THEN Some(ICO_WALLET.value) ELSE None,
         RATE_LIMIT_PER_MINUTE |-> IF ok THEN RATE_LIMIT_PER_MINUTE.value
                                   ELSE 0,
         error |-> IF ok THEN None ELSE Some("ConfigurationError")]

Env(rpc, decimals, seed, rate) ==
    [RPC_ENDPOINT |-> rpc, TOKEN_DECIMALS |-> decimals,
     ICO_WALLET_SEED |-> seed, RATE_LIMIT_PER_MINUTE |-> rate]

(* The state of the module once its import has ended. *)
Imported(env) ==
    LET c == load_configuration(env)
    IN  [pc |-> IF c.ok THEN "loaded" ELSE "failed", env |-> env,
         ICO_WALLET |-> c.ICO_WALLET, error |-> c.error]

(* The import of config.py by server.py. *)
LoadConfiguration ==
    /\ config.pc = "importing"
    /\ config' = Imported(config.env)
    /\ limit' = load_configuration(config.env).RATE_LIMIT_PER_MINUTE
    /\ UNCHANGED <<price_calls, discount_calls, ico_data, total_tokens_minted, config_files,
                   rate_limit_cache, crowd, now, ticks, req, rl, last_define>>

(* A request reaches the server: server.py runs only after its imports.    *)
Serve(ip) ==
    /\ config.pc = "loaded"
    /\ RateLimitCall(ip)

-----------------------------------------------------------------------------
(* Specifications *)

Requests == {"r1", "r2"}

Init ==
    /\ ico_data = [k \in {c.ico.ico_id : c \in LoadedIcos} |->
                      CHOOSE c \in LoadedIcos : c.ico.ico_id = k]
    /\ total_tokens_minted = [k \in {c.ico.ico_id : c \in LoadedIcos} |-> 0]
    /\ config_files = ico_data
    /\ rate_limit_cache = <<>>
    /\ crowd = NoCrowd
    /\ limit \in 1..MaxLimit
    /\ now = 0
    /\ ticks = 0
    /\ req = [r \in Requests |-> IdleReq]
    /\ rl = [ip \in ClientKeys |-> NoCalls]
    /\ last_define = [ico_id |-> "", result |-> "none", input |-> None]
    /\ config = Imported(Env(None, None, None, Some(IntText(limit))))
    /\ discount_calls = {}
    /\ price_calls = <<>>

MintedTotal ==
    LET RECURSIVE Sum(_)
        Sum(S) == IF S = {} THEN 0
                  ELSE LET k == CHOOSE k \in S : TRUE
                       IN  total_tokens_minted[k] + Sum(S \ {k})
    IN  Sum(DOMAIN total_tokens_minted)

(* Spec: two concurrent purchases with well-formed requests; the ledger    *)
(* confirms a submitted transfer at the first status poll.                  *)
Next ==
    \/ \E r \in Requests, i \in {"main_ico", "secondary_ico"},
          a \in 1..MaxAmount :
          BuyStart(r, i, Amount(a), "sig1", "ip1", FALSE)
    \/ \E r \in Requests, a \in SamplePayments : PaymentResponse(r, a)
    \/ \E r \in Requests, a \in RpcAnswers : BlockhashResponse(r, a)
    \/ \E r \in Requests, a \in RpcAnswers : SendResponse(r, a)
    \/ \E r \in Requests, f \in CommitFaults : Poll(r, "ok", f)
    \/ Tick(60)

Spec == Init /\ [][Next]_vars

(* SpecSeq: one purchase at a time, with every kind of request and every   *)
(* ledger answer; a finished call returns and the next one may start.       *)
IcoIdInputs == {"main_ico", "secondary_ico", "ghost_ico", "", LongIcoId}
AmountInputs == {Amount(n) : n \in 0..MaxAmount} \cup {HugeAmount}
SignatureInputs == {"sig1", "not-a-signature", "", LongSignature}
ClientInputs == {"ip1", ""}

(* The calls made: every ICO id with every amount and every payment         *)
(* reference; a sale with the references that are not rejected at step 1,   *)
(* and a call without client address with the well-formed reference.        *)
BuyInputs ==
    {x \in [ico_id : IcoIdInputs, amount : AmountInputs,
            payment_transaction : SignatureInputs, client_ip : ClientInputs,
            sell : BOOLEAN] :
        /\ x.sell => x.payment_transaction \in {"sig1", "not-a-signature"}
        /\ x.client_ip = "" => x.payment_transaction = "sig1" /\ ~x.sell}

MaxMinted == 3       \* no purchase starts once this many units are minted

Return(r) ==
    /\ req[r].pc = "done"
    /\ req' = [req EXCEPT ![r] = IdleReq]
    /\ UNCHANGED <<price_calls, discount_calls, config, ico_data, total_tokens_minted, config_files,
                   rate_limit_cache, crowd, limit, now, ticks, rl, last_define>>

NextSeq ==
    \/ \E x \in BuyInputs :
          /\ MintedTotal < MaxMinted
          /\ BuyStart("r1", x.ico_id, x.amount, x.payment_transaction,
                      x.client_ip, x.sell)
    \/ \E x \in BuyInputs, e \in OtherExceptions :
          BuyStartRaises("r1", x.ico_id, x.amount, x.payment_transaction,
                         x.client_ip, x.sell, e)
    \/ \E a \in PaymentAnswers : PaymentResponse("r1", a)
    \/ \E a \in RpcAnswers : BlockhashResponse("r1", a)
    \/ \E a \in RpcAnswers : SendResponse("r1", a)
    \/ \E a \in StatusAnswers, f \in CommitFaults : Poll("r1", a, f)
    \/ Return("r1")
    \/ Tick(60)

SpecSeq == Init /\ [][NextSeq]_vars

(* SpecSeqFair: SpecSeq where the ledger (or the http client's timeout)    *)
(* answers every status poll, so that a loop that is polling goes on.       *)
SpecSeqFair ==
    SpecSeq /\ WF_vars(\E a \in StatusAnswers, f \in CommitFaults :
                            Poll("r1", a, f))

(* SpecOps: purchases, sales, definitions and reads in any order, one at a *)
(* time, while the clock stands at 0.                                       *)
DefineInputs ==
    {DefineText(k) : k \in {"bad_json", "schema_invalid"}}
    \cup {DefineConfig(c) : c \in {NewIco, MainIcoAgain, BadTimesIco,
                                   BadDecimalsIco, BadSupplyIco, NoSlopeIco}}

NextOps ==
    \/ \E i \in {"main_ico", "test_ico_created"}, a \in 1..MaxAmount,
          sell \in BOOLEAN :
          /\ MintedTotal < MaxMinted
          /\ BuyStart("r1", i, Amount(a), "sig1", "ip1", sell)
    \/ \E a \in SamplePayments : PaymentResponse("r1", a)
    \/ \E a \in RpcAnswers : BlockhashResponse("r1", a)
    \/ \E a \in RpcAnswers : SendResponse("r1", a)
    \/ \E f \in CommitFaults : Poll("r1", "ok", f)
    \/ Return("r1")
    \/ \E d \in DefineInputs, ok \in BOOLEAN : CreateIco(d, ok)
    \/ \E i \in {"main_ico", "ghost_ico"} : GetIcoInfo(i)

SpecOps == Init /\ [][NextOps]_vars

(* SpecRL: the rate limiter on its own, with a clock of seconds. *)
NextRL ==
    \/ \E ip \in ClientKeys : RateLimitCall(ip)
    \/ \E d \in {1, 59, 60} : Tick(d)
    \/ CrowdBurst

SpecRL == Init /\ [][NextRL]_vars

(* SpecBoot: the server starts with some environment, config.py is         *)
(* imported, and a server whose import succeeded takes requests.            *)
SeedInputs ==
    {None, Some(SeedOf(SEED_LENGTH, IntText(7))),
     Some(SeedOf(SEED_LENGTH - 1, IntText(7))),
     Some(SeedOf(SEED_LENGTH + 1, IntText(7))),
     Some(SeedOf(SEED_LENGTH, NotInt)),
     Some(SeedOf(SEED_LENGTH, IntText(256))),
     Some(<<NotInt>>)}

IntInputs(lo, hi) ==
    {None, Some(NotInt)} \cup {Some(IntText(n)) : n \in lo..hi}

Environments ==
    {Env(rpc, d, s, rate) :
        rpc \in {None, Some("")},
        d \in IntInputs(18, 19),
        s \in SeedInputs,
        rate \in IntInputs(0, MaxLimit) \cup {Some(IntText(1001))}}

InitBoot ==
    /\ ico_data = [k \in {c.ico.ico_id : c \in LoadedIcos} |->
                      CHOOSE c \in LoadedIcos : c.ico.ico_id = k]
    /\ total_tokens_minted = [k \in {c.ico.ico_id : c \in LoadedIcos} |-> 0]
    /\ config_files = ico_data
    /\ rate_limit_cache = <<>>
    /\ crowd = NoCrowd
    /\ limit = 0
    /\ now = 0
    /\ ticks = 0
    /\ req = [r \in Requests |-> IdleReq]
    /\ rl = [ip \in ClientKeys |-> NoCalls]
    /\ last_define = [ico_id |-> "", result |-> "none", input |-> None]
    /\ discount_calls = {}
    /\ price_calls = <<>>
    /\ \E env \in Environments :
          config = [pc |-> "importing", env |-> env, ICO_WALLET |-> None,
                    error |-> None]

NextBoot ==
    \/ LoadConfiguration
    \/ \E ip \in {"ip1"} : Serve(ip)

SpecBoot == InitBoot /\ [][NextBoot]_vars

(* SpecDiscount: clients ask for the discount of held amounts. *)
HeldAmounts ==
    {Amount(n) : n \in {-1, 0, 5, 15, 999, 1000, 2500, 10000, 10001,
                        100000, 100001}} \cup {HugeAmount}

NextDiscount ==
    \E i \in {"main_ico", "secondary_ico", "ghost_ico", ""},
       a \in HeldAmounts, tie_up \in BOOLEAN : GetDiscount(i, a, tie_up)

SpecDiscount == Init /\ [][NextDiscount]_vars

(* SpecPrice: the pricing engine is asked for prices of curves of every    *)
(* kind, with parameters of either sign, at supplies 0..MaxSupply.          *)
MaxSupply == 3    \* the largest minted count a price is asked at

PriceToken == TokenConfig("Priced Token", "PRT", 1000, 0)

PriceIco(curve_type, fixed_price, initial_price, slope, growth_rate, custom_formula, sell_fee_percentage) ==
    IcoConfigModel(PriceToken,
                   IcoConfig("priced_ico", 0, 60, curve_type, fixed_price,
                             initial_price, slope, growth_rate,
                             custom_formula, sell_fee_percentage))

LinearConfigs ==
    {PriceIco("linear", None, Some(p), Some(s), None, None, 1) :
        p \in {-1, 0, 2}, s \in {-1, 0, 1}}

OtherCurveConfigs ==
    {PriceIco("fixed", Some(-3), None, None, None, None, 1),
     PriceIco("fixed", Some(30), None, None, None, None, 150),
     PriceIco("exponential", None, Some(-1), None, Some(1), None, 1),
     PriceIco("custom", None, Some(2), Some(1), None, Some(F_NEGATIVE), 1),
     PriceIco("sigmoid", None, Some(2), Some(1), None, None, 1)}

(* One whole token is bought on every linear curve at every supply; the    *)
(* other curves, and two of the linear ones, are asked for the buy and sell *)
(* totals of MaxAmount tokens at the ends of the supply range.              *)
PriceInputs ==
    {<<cfg, supply, 1, FALSE>> : cfg \in LinearConfigs,
                                 supply \in 0..MaxSupply}
    \cup {<<cfg, supply, MaxAmount, is_sell>> :
             cfg \in OtherCurveConfigs
                     \cup {PriceIco("linear", None, Some(2), Some(s), None,
                                    None, 1) : s \in {-1, 1}},
             supply \in {0, MaxSupply}, is_sell \in BOOLEAN}

NextPrice ==
    \E i \in PriceInputs : PriceCall(i[1], i[2], i[3], i[4])

SpecPrice == Init /\ [][NextPrice]_vars

(* SpecCurves: purchases, one at a time, from a registry loaded with ICOs   *)
(* whose curve cannot be priced (sigmoid, a custom formula that fails, a    *)
(* linear curve without slope, a fixed curve without price) next to a       *)
(* custom curve that can; the sales are open from 0 to 60, and an ICO that  *)
(* is not in the registry is asked for too.                                 *)
CurveIco(ico_id, curve_type, fixed_price, initial_price, slope, custom_formula) ==
    IcoConfigModel(TokenConfig("Curve Token", "CVT", 1000, 0),
                   IcoConfig(ico_id, 0, 60, curve_type, fixed_price,
                             initial_price, slope, None, custom_formula, 1))

CurveIcos ==
    {CurveIco("sigmoid_ico", "sigmoid", None, Some(2), Some(1), None),
     CurveIco("div_zero_ico", "custom", None, Some(2), None, Some(F_DIV_ZERO)),
     CurveIco("unknown_name_ico", "custom", None, Some(2), None,
              Some(F_UNKNOWN_NAME)),
     CurveIco("no_slope_ico", "linear", None, Some(2), None, None),
     CurveIco("no_price_ico", "fixed", None, None, None, None),
     CurveIco("custom_ico", "custom", None, Some(1), Some(1), Some(F_LINEAR))}

CurveIcoIds == {c.ico.ico_id : c \in CurveIcos}

InitCurves ==
    /\ ico_data = [k \in CurveIcoIds |->
                      CHOOSE c \in CurveIcos : c.ico.ico_id = k]
    /\ total_tokens_minted = [k \in CurveIcoIds |-> 0]
    /\ config_files = ico_data
    /\ rate_limit_cache = <<>>
    /\ crowd = NoCrowd
    /\ limit \in 1..MaxLimit
    /\ now = 0
    /\ ticks = 0
    /\ req = [r \in Requests |-> IdleReq]
    /\ rl = [ip \in ClientKeys |-> NoCalls]
    /\ last_define = [ico_id |-> "", result |-> "none", input |-> None]
    /\ config = Imported(Env(None, None, None, Some(IntText(limit))))
    /\ discount_calls = {}
    /\ price_calls = <<>>

NextCurves ==
    \/ \E i \in CurveIcoIds \cup {"ghost_ico"}, a \in 1..MaxAmount,
          sell \in BOOLEAN :
          /\ MintedTotal < MaxMinted
          /\ BuyStart("r1", i, Amount(a), "sig1", "ip1", sell)
    \/ \E a \in SamplePayments : PaymentResponse("r1", a)
    \/ \E a \in RpcAnswers : BlockhashResponse("r1", a)
    \/ \E a \in RpcAnswers : SendResponse("r1", a)
    \/ \E f \in CommitFaults : Poll("r1", "ok", f)
    \/ Return("r1")
    \/ Tick(60)

SpecCurves == InitCurves /\ [][NextCurves]_vars

-----------------------------------------------------------------------------
(* Properties *)

(* The requests whose step 9 wrote the counter of ICO i. *)
CommittedOn(i) ==
    {r \in Requests : req[r].ico_id = i /\ ~IsNone(req[r].commit)}

RECURSIVE SumAmounts(_)
SumAmounts(S) ==
    IF S = {} THEN 0
    ELSE LET r == CHOOSE x \in S : TRUE
         IN  req[r].amount.n + SumAmounts(S \ {r})

(* C1: of two concurrent purchases of the same ICO, none commits its        *)
(* increment after having been priced against a minted count that differs   *)
(* from the counter's value at its own commit.                               *)
C1_PricedAtCommittedCount ==
    \A r \in Requests :
        ~IsNone(req[r].commit) =>
            Val(req[r].priced_at) = Val(req[r].commit).before

(* C2: no lost updates: under every interleaving the counter of an ICO is   *)
(* its initial value, 0, plus the amounts of the purchases that have         *)
(* executed their increment; N purchases of amount 1 leave it at N.          *)
C2_NoLostUpdates ==
    \A i \in DOMAIN total_tokens_minted :
        total_tokens_minted[i] = SumAmounts(CommittedOn(i))

(* Two interleaved purchases of amount 1 of the same ICO, both priced       *)
(* before either committed, both committed.                                  *)
C2_Witness ==
    /\ CommittedOn("main_ico") = Requests
    /\ \A r \in Requests : req[r].amount.n = 1 /\ Val(req[r].priced_at) = 0
    /\ total_tokens_minted["main_ico"] = Cardinality(Requests)

(* C3: through every buy, sell, define and read, the minted counter of     *)
(* each ICO stays and is at least what it was before: it never decreases.   *)
C3_MintedNeverDecreases ==
    [][\A i \in DOMAIN total_tokens_minted :
          /\ i \in DOMAIN total_tokens_minted'
          /\ total_tokens_minted'[i] >= total_tokens_minted[i]]_vars

(* main_ico has been sold, defined again and asked to be sold back. *)
C3_Witness ==
    /\ total_tokens_minted["main_ico"] > 0
    /\ ico_data["main_ico"] = MainIcoAgain
    /\ last_define.ico_id = "main_ico" /\ last_define.result = "created"
    /\ req["r1"].sell /\ req["r1"].outcome = "SellNotImplemented"
    /\ Val(req["r1"].priced_at) = total_tokens_minted["main_ico"]

(* C4: a buy of a known ICO made at a time before start_time or after      *)
(* end_time returns at once, having made no ledger call and leaving every   *)
(* counter as it was; when its parameters are valid and the rate limiter    *)
(* admits it without raising, what it returns is InactiveICO.                *)
C4_InactiveWindow ==
    [][\A r \in Requests :
          LET q == req'[r]
              outside == \/ now < ico_data[q.ico_id].ico.start_time
                         \/ now > ico_data[q.ico_id].ico.end_time
              reaches_window_check ==
                  /\ validate_token_operation_params(
                         q.ico_id, q.amount, q.payment_transaction, q.client_ip)
                  /\ check_rate_limit(rate_limit_cache, crowd, q.client_ip,
                                      now, limit).allowed
                  /\ q.outcome \notin {buy_tokens_except(e) :
                                           e \in OtherExceptions}
          IN  (/\ req[r].pc = "idle" /\ q.pc # "idle"
               /\ q.ico_id \in DOMAIN ico_data
               /\ outside)
              => /\ q.pc = "done"
                 /\ q.calls = NoCalls4
                 /\ IsNone(q.commit)
                 /\ total_tokens_minted' = total_tokens_minted
                 /\ reaches_window_check => q.outcome = "InactiveICO"]_vars

(* secondary_ico, which opens at 60, is asked for at time 0 *)
C4_Witness ==
    /\ now = 0
    /\ req["r1"].ico_id = "secondary_ico"
    /\ req["r1"].outcome = "InactiveICO"
    /\ req["r1"].calls = NoCalls4

(* The payment of request r was a transfer to the ICO wallet of less than  *)
(* the price computed for the request.                                      *)
Underpaid(r) ==
    /\ ~IsNone(req[r].payment)
    /\ Val(req[r].payment).kind = "transfer"
    /\ Val(req[r].payment).lamports * Val(req[r].required).den
         < Val(req[r].required).num

(* C5: when the payment transfers less than the price computed for the     *)
(* request, the request ends there: no blockhash is asked for, no token     *)
(* transfer is submitted or polled, and the counter is not incremented.     *)
C5_UnderpaymentStops ==
    \A r \in Requests :
        Underpaid(r) =>
            /\ req[r].pc = "done"
            /\ req[r].outcome # "Success"
            /\ req[r].calls = [NoCalls4 EXCEPT !.getTransaction = 1]
            /\ IsNone(req[r].commit)
            /\ IsNone(req[r].transfer_sig)

(* A payment of 1 lamport for tokens that cost more *)
C5_Witness ==
    /\ Underpaid("r1")
    /\ Val(req["r1"].payment).lamports = 1
    /\ req["r1"].pc = "done"
    /\ total_tokens_minted = [i \in DOMAIN total_tokens_minted |-> 0]

(* C6: a direct transfer to the ICO wallet of less than the price is       *)
(* reported as InsufficientFunds, a malformed, wrong-type or                *)
(* wrong-destination transaction as InvalidTransaction; an under-payment    *)
(* never reaches the caller as InvalidTransaction.                          *)
C6_ErrorKindsDistinct ==
    \A r \in Requests :
        /\ Underpaid(r) /\ req[r].pc = "done"
              => req[r].outcome = "InsufficientFunds"
        /\ (/\ ~IsNone(req[r].payment)
            /\ Val(req[r].payment).kind \in
                  {"malformed", "not_system_program", "not_transfer",
                   "wrong_destination"}
            /\ req[r].pc = "done")
              => req[r].outcome = "InvalidTransaction"

(* C7: of the calls a client key makes less than 60 seconds after its      *)
(* first call, exactly the first `limit` are admitted and every later one   *)
(* is rejected; a call that finds a window begun 60 seconds or more before  *)
(* is admitted.                                                             *)
C7_FixedWindowAdmits ==
    \A ip \in ClientKeys :
        /\ \A n \in 1..Len(rl[ip].early) : rl[ip].early[n] = (n <= limit)
        /\ (/\ ~IsNone(rl[ip].last)
            /\ ~IsNone(Val(rl[ip].last).found)
            /\ Val(rl[ip].last).t - Val(Val(rl[ip].last).found)[2] >= 60)
              => Val(rl[ip].last).allowed

(* A key used its limit, was rejected, and was admitted again once the     *)
(* window had passed.                                                       *)
C7_Witness ==
    \E ip \in ClientKeys :
        /\ Len(rl[ip].early) = limit + 1
        /\ ~rl[ip].early[limit + 1]
        /\ ~IsNone(Val(rl[ip].last).found)
        /\ Val(rl[ip].last).t - Val(rl[ip].first) >= 60
        /\ Val(rl[ip].last).allowed

(* C8: sliding window: in no span of 60 consecutive seconds are more than  *)
(* `limit` calls of one client key admitted.                                *)
C8_SlidingWindow ==
    \A ip \in ClientKeys : Len(rl[ip].admits) <= limit

(* C9: when the transfer is confirmed and the counter update raises, the   *)
(* buy returns success with the transfer reference, and the confirming poll *)
(* stays its last ledger call: nothing is sent to undo the transfer.        *)
C9_CommitFailureStillSuccess ==
    \A r \in Requests :
        req[r].commit_raised =>
            /\ req[r].pc = "done"
            /\ req[r].outcome = "Success"
            /\ "ok" \in req[r].seen
            /\ Val(req[r].transfer_sig) \in req[r].result_refs
            /\ req[r].calls.getTransaction = 1
            /\ req[r].calls.getLatestBlockhash = 1
            /\ req[r].calls.sendTransaction = 1
            /\ req[r].calls.getSignatureStatuses * CHECK_INTERVAL
                 = req[r].elapsed_time

(* The counter update raised before writing: a transfer was made that the  *)
(* counter does not show.                                                   *)
C9_Witness ==
    /\ req["r1"].commit_raised
    /\ IsNone(req["r1"].commit)
    /\ req["r1"].outcome = "Success"
    /\ total_tokens_minted[req["r1"].ico_id] = 0

(* C10: a buy has a transfer reference or succeeds only if one of its      *)
(* polls saw the transfer confirmed or finalized without error; polling     *)
(* never goes on past the timeout, and a request whose polls reached the    *)
(* timeout without seeing that ends in TransactionFailed with no reference  *)
(* and no increment of the counter.                                         *)
C10_SuccessOnlyIfConfirmed ==
    \A r \in Requests :
        /\ (req[r].outcome = "Success" \/ req[r].result_refs # {}
              \/ ~IsNone(req[r].commit) \/ req[r].commit_raised)
              => "ok" \in req[r].seen
        /\ req[r].pc = "polling" => req[r].elapsed_time < POLL_TIMEOUT
        /\ (req[r].elapsed_time >= POLL_TIMEOUT /\ "ok" \notin req[r].seen)
              => /\ req[r].pc = "done"
                 /\ req[r].outcome = "TransactionFailed"
                 /\ req[r].result_refs = {}
                 /\ IsNone(req[r].commit)

(* Thirty polls without a confirmation *)
C10_Witness ==
    /\ req["r1"].elapsed_time = POLL_TIMEOUT
    /\ req["r1"].calls.getSignatureStatuses = POLL_TIMEOUT \div CHECK_INTERVAL
    /\ "ok" \notin req["r1"].seen
    /\ req["r1"].outcome = "TransactionFailed"

(* C11: a buy whose payment validated and whose transfer a poll saw         *)
(* confirmed returns the success result, and that result holds the payment  *)
(* reference of the request and the transfer reference the ledger returned. *)
C11_SuccessHoldsBothReferences ==
    \A r \in Requests :
        "ok" \in req[r].seen =>
            /\ req[r].outcome = "Success"
            /\ ~IsNone(req[r].payer)
            /\ req[r].payment_transaction \in req[r].result_refs
            /\ Val(req[r].transfer_sig) \in req[r].result_refs
            /\ req[r].payment_transaction # Val(req[r].transfer_sig)

(* A purchase of secondary_ico paid with sig1 and confirmed *)
C11_Witness ==
    /\ req["r1"].outcome = "Success"
    /\ req["r1"].ico_id = "secondary_ico"
    /\ ~req["r1"].commit_raised
    /\ req["r1"].result_refs = {"sig1", TransferSignature("r1")}

(* What the registry, the counters and the configuration files hold. *)
Registry == <<ico_data, total_tokens_minted, config_files>>

(* The create_ico call that made this step was given a record with         *)
(* start_time >= end_time, decimals outside 0..18 or total_supply <= 0.     *)
DefinedBadRecord ==
    /\ last_define' # last_define
    /\ Val(last_define'.input).kind = "config"
    /\ LET cfg == Val(last_define'.input).cfg
       IN  \/ cfg.ico.start_time >= cfg.ico.end_time
           \/ cfg.token.decimals < 0 \/ cfg.token.decimals > 18
           \/ cfg.token.total_supply <= 0

(* C12: create_ico rejects a record with start_time >= end_time, decimals   *)
(* outside 0..18 or total_supply <= 0, and the rejection leaves the         *)
(* registry, every counter and the configuration files as they were.        *)
C12_BadRecordRejectedUnchanged ==
    [][DefinedBadRecord =>
          /\ last_define'.result = "rejected"
          /\ Registry' = Registry]_vars

(* A record with decimals 19 was rejected after main_ico had been sold and *)
(* test_ico_created defined.                                                *)
C12_Witness ==
    /\ last_define.result = "rejected"
    /\ last_define.input = Some(DefineConfig(BadDecimalsIco))
    /\ total_tokens_minted["main_ico"] > 0
    /\ "test_ico_created" \in DOMAIN ico_data
    /\ ico_data["test_ico_created"] = NewIco

(* C13: create_ico is all-or-nothing: when saving the record fails the call *)
(* is reported as a failure and the registry and the counters are as they   *)
(* were before the call.                                                    *)
C13_SaveFailureLeavesNoTrace ==
    [][(last_define' # last_define /\ last_define'.result = "save_error") =>
          /\ ico_data' = ico_data
          /\ total_tokens_minted' = total_tokens_minted]_vars

(* The curve of ico has every field its kind requires. *)
CurveComplete(ico) ==
    /\ ico.curve_type = "fixed" => ~IsNone(ico.fixed_price)
    /\ ico.curve_type = "linear" =>
          ~IsNone(ico.initial_price) /\ ~IsNone(ico.slope)
    /\ ico.curve_type = "exponential" =>
          ~IsNone(ico.initial_price) /\ ~IsNone(ico.growth_rate)
    /\ ico.curve_type = "custom" =>
          ~IsNone(ico.custom_formula) /\ ~IsNone(ico.initial_price)

(* C14: create_ico rejects a record whose curve kind lacks a field the kind *)
(* requires, so every ICO of the registry has the fields of its curve.      *)
C14_CurveFieldsRequired ==
    /\ \A i \in DOMAIN ico_data : CurveComplete(ico_data[i].ico)
    /\ (/\ ~IsNone(last_define.input)
        /\ Val(last_define.input).kind = "config"
        /\ ~CurveComplete(Val(last_define.input).cfg.ico))
          => last_define.result = "rejected"

FailedInPriceCompute(r) ==
    /\ req[r].pc = "done"
    /\ ~IsNone(req[r].priced_at)
    /\ IsNone(req[r].required)

(* C16: a request that fails in the price computation ends in an outcome of *)
(* its own, not in the InvalidInput outcome of a malformed amount.          *)
C16_PriceErrorHasOwnOutcome ==
    \A r \in Requests :
        FailedInPriceCompute(r) => req[r].outcome # "InvalidInput"

(* C17: a call with sell = TRUE that passes steps 1 to 6 (it was priced and *)
(* its payment reference is well formed) returns the sell-not-implemented   *)
(* outcome in the same step, with no ledger call and every counter as it    *)
(* was.                                                                     *)
C17_SellNotImplemented ==
    [][\A r \in Requests :
          (/\ req[r].pc = "idle" /\ req'[r].pc # "idle"
           /\ req'[r].sell
           /\ ~IsNone(req'[r].required)
           /\ Val(req'[r].required).num >= 0
           /\ req'[r].payment_transaction \in SignatureStrings)
          => /\ req'[r].pc = "done"
             /\ req'[r].outcome = "SellNotImplemented"
             /\ req'[r].calls = NoCalls4
             /\ total_tokens_minted' = total_tokens_minted]_vars

(* A sale of secondary_ico asked for with a well-formed reference *)
C17_Witness ==
    /\ req["r1"].sell
    /\ req["r1"].ico_id = "secondary_ico"
    /\ req["r1"].payment_transaction = "sig1"
    /\ req["r1"].outcome = "SellNotImplemented"
    /\ req["r1"].calls = NoCalls4
    /\ IsNone(req["r1"].commit)

(* C18: a start with invalid ICO wallet key material (not exactly 32      *)
(* comma-separated byte values) ends the import with ConfigurationError,   *)
(* and a server with such key material never takes a request.               *)
InvalidWalletSeed(env) ==
    seed_parse_raises(getenv(env.ICO_WALLET_SEED,
                             SeedOf(SEED_LENGTH, IntText(1))))

C18_InvalidWalletAbortsStartup ==
    (config.pc # "importing" /\ InvalidWalletSeed(config.env))
        => /\ config.pc = "failed"
           /\ config.error = Some("ConfigurationError")
           /\ \A ip \in ClientKeys : rl[ip].calls = 0

(* C19: the token descriptor of an ICO is immutable once the ICO exists:   *)
(* no operation changes the name, symbol, decimals or total supply         *)
(* resolved for an id that is already in the registry.                      *)
C19_TokenDescriptorImmutable ==
    [][\A i \in DOMAIN ico_data :
          /\ i \in DOMAIN ico_data'
          /\ ico_data'[i].token = ico_data[i].token]_vars

(* C20: a buy of amount a on ICO X that ends in success leaves the minted  *)
(* counter of every other ICO unchanged, and when its step 9 ran to the    *)
(* end it has increased the counter of X by exactly a; a step 9 that       *)
(* raised has increased it by a or not at all.                              *)
C20_BuyAddsAmountToItsIcoOnly ==
    [][\A r \in Requests :
          (req[r].pc # "done" /\ req'[r].pc = "done"
           /\ req'[r].outcome = "Success")
          => LET X == req'[r].ico_id
                 a == req'[r].amount.n
             IN  /\ DOMAIN total_tokens_minted' = DOMAIN total_tokens_minted
                 /\ \A j \in DOMAIN total_tokens_minted \ {X} :
                       total_tokens_minted'[j] = total_tokens_minted[j]
                 /\ ~req'[r].commit_raised
                       => total_tokens_minted'[X] = total_tokens_minted[X] + a
                 /\ req'[r].commit_raised
                       => total_tokens_minted'[X] \in
                             {total_tokens_minted[X],
                              total_tokens_minted[X] + a}]_vars

C20_Witness ==
    /\ req["r1"].outcome = "Success" /\ ~req["r1"].commit_raised
    /\ req["r1"].ico_id = "main_ico" /\ req["r1"].amount.n = MaxAmount
    /\ req["r1"].commit = Some([before |-> 0, after |-> MaxAmount])
    /\ req["r2"].outcome = "Success" /\ req["r2"].ico_id = "secondary_ico"
    /\ total_tokens_minted["main_ico"] = MaxAmount
    /\ total_tokens_minted["secondary_ico"] = 1

(* C21: what get_discount returns for a held amount of an ICO is           *)
(* min(held whole tokens / 1000 * 1%, 10%), shown to the nearest hundredth *)
(* of a percent: it never exceeds 10%, and of two calls for the same ICO   *)
(* the one with the larger held amount never returns less.                  *)
C21_DiscountFormula ==
    \A c \in discount_calls :
       (/\ c.ico_id \in DOMAIN ico_data
        /\ ~c.amount.huge /\ c.amount.n >= 0)
       => LET per_percent == Pow(10, ico_data[c.ico_id].token.decimals) * 1000
              exact == IF c.amount.n * 100 <= 1000 * per_percent
                       THEN c.amount.n * 100 ELSE 1000 * per_percent
              shown == c.result.percent_2f * per_percent
          IN  /\ c.result.kind = "discount"
              /\ 2 * (shown - exact) <= per_percent
              /\ 2 * (exact - shown) <= per_percent
              /\ c.result.percent_2f <= 1000
              /\ \A c2 \in discount_calls :
                    (/\ c2.ico_id = c.ico_id /\ c2.result.kind = "discount"
                     /\ c2.amount.n >= c.amount.n)
                    => c2.result.percent_2f >= c.result.percent_2f

(* 1000 whole tokens of main_ico give 1.00%, 10001 give the cap 10.00% *)
C21_Witness ==
    /\ [ico_id |-> "main_ico", amount |-> Amount(1000),
        result |-> [kind |-> "discount", symbol |-> "MMT",
                    percent_2f |-> 100]] \in discount_calls
    /\ [ico_id |-> "main_ico", amount |-> Amount(10001),
        result |-> [kind |-> "discount", symbol |-> "MMT",
                    percent_2f |-> 1000]] \in discount_calls

(* C22: the checks of a purchase run in the order RateCheck, Lookup,       *)
(* WindowCheck, InputValidate, PriceCompute: a call with a malformed       *)
(* amount (and an id, a payment reference and a client key that are well   *)
(* formed) ends in RateLimitExceeded when the quota of its client key is   *)
(* exhausted, and otherwise in NotFound when its ICO id is unknown.         *)
C22_ChecksInSpecOrder ==
    [][\A r \in Requests :
          LET q == req'[r]
              malformed_amount == q.amount.huge \/ q.amount.n <= 0
              admitted == check_rate_limit(rate_limit_cache, crowd,
                                           q.client_ip, now, limit).allowed
          IN  (/\ req[r].pc = "idle" /\ q.pc # "idle"
               /\ malformed_amount
               /\ validate_token_operation_params(
                      q.ico_id, Amount(1), q.payment_transaction, q.client_ip))
              => /\ ~admitted => q.outcome = "RateLimitExceeded"
                 /\ (admitted /\ q.ico_id \notin DOMAIN ico_data)
                       => q.outcome = "NotFound"]_vars

(* The position of a request in the sequence of steps of buy_tokens. *)
StepRank(pc) ==
    CASE pc = "idle" -> 0
      [] pc = "await_payment" -> 1
      [] pc = "await_blockhash" -> 2
      [] pc = "await_send" -> 3
      [] pc = "polling" -> 4
      [] pc = "done" -> 5

(* The payment the ledger reported for request r covers its price. *)
PaymentValidated(q) ==
    /\ ~IsNone(q.payment) /\ ~IsNone(q.required) /\ ~IsNone(q.payer)
    /\ Val(q.payment).kind = "transfer"
    /\ Val(q.payment).lamports * Val(q.required).den >= Val(q.required).num

(* C23: within one buy request the ledger steps are strictly ordered: the  *)
(* transfer is prepared and submitted only after the payment of the same   *)
(* request was validated, the counter is incremented only after the        *)
(* transfer of the same request was seen confirmed, no step is taken       *)
(* backwards, and a request that has ended takes no further step.           *)
C23_LedgerStepsOrdered ==
    /\ [](\A r \in Requests :
            LET q == req[r]
            IN  /\ (q.calls.getLatestBlockhash > 0 \/ q.calls.sendTransaction > 0)
                      => PaymentValidated(q)
                /\ q.calls.sendTransaction <= q.calls.getLatestBlockhash
                /\ q.calls.getLatestBlockhash <= q.calls.getTransaction
                /\ (q.calls.getSignatureStatuses > 0 \/ q.pc = "polling")
                      => (q.calls.sendTransaction = 1 /\ ~IsNone(q.transfer_sig))
                /\ (~IsNone(q.commit) \/ q.commit_raised)
                      => ("ok" \in q.seen /\ ~IsNone(q.transfer_sig)
                          /\ q.pc = "done")
                /\ q.pc \in {"idle", "await_payment"}
                      => (q.calls.sendTransaction = 0 /\ IsNone(q.commit)))
    /\ [][\A r \in Requests :
            /\ req'[r] # IdleReq => StepRank(req'[r].pc) >= StepRank(req[r].pc)
            /\ req[r].pc = "done" => req'[r] \in {req[r], IdleReq}
            /\ (req[r].pc # "done" /\ req'[r].pc = "done"
                /\ req'[r].outcome # "Success")
                  => /\ req'[r].calls.getLatestBlockhash
                           = req[r].calls.getLatestBlockhash
                     /\ req'[r].calls.sendTransaction
                           = req[r].calls.sendTransaction
                     /\ total_tokens_minted' = total_tokens_minted]_vars

C23_Witness ==
    /\ req["r1"].outcome = "Success"
    /\ req["r1"].calls.getTransaction = 1
    /\ req["r1"].calls.getLatestBlockhash = 1
    /\ req["r1"].calls.sendTransaction = 1
    /\ req["r1"].calls.getSignatureStatuses = 2
    /\ PaymentValidated(req["r1"])
    /\ ~IsNone(req["r1"].commit)

(* C24: the minted counters change only in the step in which a buy request *)
(* ends in success; a request that has ended in an error outcome has       *)
(* written no counter, and the counter of its ICO is the one it was priced *)
(* at (requests are made one at a time).                                    *)
C24_ErrorLeavesCounters ==
    /\ [][total_tokens_minted' # total_tokens_minted
            => \E r \in Requests :
                  /\ req[r].pc # "done" /\ req'[r].pc = "done"
                  /\ req'[r].outcome = "Success"]_vars
    /\ [](\A r \in Requests :
            (req[r].pc = "done"
             /\ req[r].outcome \notin {"Success", "SellNotImplemented"})
            => /\ IsNone(req[r].commit)
               /\ ~IsNone(req[r].priced_at)
                     => get_total_tokens_minted(total_tokens_minted,
                                                req[r].ico_id)
                           = Val(req[r].priced_at))

(* after a purchase of one unit, a second request for the same ICO fails   *)
(* when its transfer is not confirmed                                       *)
C24_Witness ==
    /\ req["r1"].outcome = "TransactionFailed"
    /\ req["r1"].ico_id = "main_ico"
    /\ req["r1"].calls.getSignatureStatuses > 0
    /\ req["r1"].priced_at = Some(1)
    /\ total_tokens_minted["main_ico"] = 1

(* C25: confirmation polling stops at the first terminal status: a request *)
(* one of whose polls saw the transfer confirmed or finalized with an      *)
(* error has ended, at that poll, in TransactionFailed.                     *)
C25_PollingStopsAtOnChainError ==
    \A r \in Requests :
       "err" \in req[r].seen
       => req[r].pc = "done" /\ req[r].outcome = "TransactionFailed"

(* C26: confirmation polling always terminates: whatever the ledger        *)
(* answers, a request makes at most POLL_TIMEOUT / CHECK_INTERVAL = 30     *)
(* status polls, a loop that has made 30 polls has ended, and a request    *)
(* that is polling ends, in success or in TransactionFailed.                *)
MaxPolls == POLL_TIMEOUT \div CHECK_INTERVAL

C26_PollingTerminates ==
    /\ [](\A r \in Requests :
            /\ req[r].calls.getSignatureStatuses <= MaxPolls
            /\ req[r].elapsed_time
                  = CHECK_INTERVAL * req[r].calls.getSignatureStatuses
            /\ req[r].pc = "polling"
                  => req[r].calls.getSignatureStatuses < MaxPolls)
    /\ [][\A r \in Requests :
            (req[r].pc = "polling" /\ req'[r].pc = "done")
            => req'[r].outcome \in {"Success", "TransactionFailed"}]_vars
    /\ \A r \in Requests : (req[r].pc = "polling") ~> (req[r].pc = "done")

C26_Witness ==
    /\ req["r1"].pc = "done"
    /\ req["r1"].calls.getSignatureStatuses = MaxPolls
    /\ req["r1"].elapsed_time = POLL_TIMEOUT
    /\ req["r1"].outcome = "TransactionFailed"
    /\ req["r1"].seen = {}

(* C27: when the counter update fails after a confirmed transfer, the      *)
(* success result returned says so (accounting reconciliation is needed),  *)
(* and the result of a buy whose counter update succeeded does not.         *)
C27_CommitFailureNoted ==
    \A r \in Requests :
       (req[r].pc = "done" /\ req[r].outcome = "Success")
       => (req[r].result_note <=> req[r].commit_raised)

(* C28: no automatic retry: within one buy request the payment is asked    *)
(* from the ledger at most once and a transfer is submitted at most once   *)
(* (with at most one blockhash request), whatever the ledger answers; a    *)
(* request whose payment or submission the ledger did not accept ends at   *)
(* that answer.                                                             *)
C28_NoAutoRetry ==
    /\ [](\A r \in Requests :
            /\ req[r].calls.getTransaction <= 1
            /\ req[r].calls.getLatestBlockhash <= 1
            /\ req[r].calls.sendTransaction <= 1)
    /\ [][\A r \in Requests :
            (/\ req[r].pc \in {"await_payment", "await_blockhash", "await_send"}
             /\ req'[r] # req[r])
            => StepRank(req'[r].pc) > StepRank(req[r].pc)]_vars

(* the ledger rejects the submission: one sendTransaction, no poll *)
C28_Witness ==
    /\ req["r1"].pc = "done"
    /\ req["r1"].outcome = "TransactionFailed"
    /\ req["r1"].calls.getTransaction = 1
    /\ req["r1"].calls.sendTransaction = 1
    /\ req["r1"].calls.getSignatureStatuses = 0

(* The step is a check_rate_limit call for ip. *)
CallOf(ip) == rl'[ip].calls = rl[ip].calls + 1

(* ip has used up its quota and its window is still open. *)
QuotaExhausted(ip) ==
    /\ ip \in DOMAIN rate_limit_cache
    /\ rate_limit_cache[ip][1] >= limit
    /\ now - rate_limit_cache[ip][2] < RATE_WINDOW

(* C29 as stated: a rejected call leaves the key's own entry and the       *)
(* entries of all other keys unchanged.                                     *)
C29_RejectLeavesCacheUntouched ==
    [][\A ip \in ClientKeys :
          (CallOf(ip) /\ QuotaExhausted(ip))
          => /\ ~Val(rl'[ip].last).allowed
             /\ rate_limit_cache' = rate_limit_cache
             /\ crowd' = crowd]_vars

(* C29: a call for a key whose count has reached the limit and whose       *)
(* window is open is rejected and leaves the key's (count, window_start)   *)
(* unchanged; the entry of another key is unchanged too, unless the call   *)
(* found more than CLEANUP_THRESHOLD keys and that entry's window_start is *)
(* older than now - 60, in which case the sweep has removed it.             *)
C29_RejectLeavesOpenWindows ==
    [][\A ip \in ClientKeys :
          (CallOf(ip) /\ QuotaExhausted(ip))
          => LET sweep == CacheLen(rate_limit_cache, crowd) > CLEANUP_THRESHOLD
                 Expired(ts) == ts < now - RATE_WINDOW
             IN  /\ ~Val(rl'[ip].last).allowed
                 /\ ip \in DOMAIN rate_limit_cache'
                 /\ rate_limit_cache'[ip] = rate_limit_cache[ip]
                 /\ DOMAIN rate_limit_cache' \subseteq DOMAIN rate_limit_cache
                 /\ \A k \in DOMAIN rate_limit_cache \ {ip} :
                       IF sweep /\ Expired(rate_limit_cache[k][2])
                       THEN k \notin DOMAIN rate_limit_cache'
                       ELSE /\ k \in DOMAIN rate_limit_cache'
                            /\ rate_limit_cache'[k] = rate_limit_cache[k]
                 /\ crowd' = IF sweep /\ crowd.n > 0 /\ Expired(crowd.ts)
                             THEN NoCrowd ELSE crowd]_vars

(* ip1 was rejected at a time when ip2 has an entry with an open window *)
C29_Witness ==
    /\ ~IsNone(rl["ip1"].last)
    /\ ~Val(rl["ip1"].last).allowed
    /\ Val(rl["ip1"].last).t = now
    /\ Val(rl["ip1"].last).found = Some(rate_limit_cache["ip1"])
    /\ "ip2" \in DOMAIN rate_limit_cache
    /\ now - rate_limit_cache["ip2"][2] < RATE_WINDOW

(* C30: eviction runs only on a call that finds more than                  *)
(* CLEANUP_THRESHOLD keys tracked; it removes exactly the entries whose    *)
(* window_start is older than now - 60 (the caller's own such entry is     *)
(* then started afresh), and no step removes an entry that is not older.    *)
C30_EvictionOnlyOfExpired ==
    [][LET Expired(ts) == ts < now - RATE_WINDOW
           removed == DOMAIN rate_limit_cache \ DOMAIN rate_limit_cache'
       IN  /\ \A k \in removed : Expired(rate_limit_cache[k][2])
           /\ (crowd.n > 0 /\ ~Expired(crowd.ts)) => crowd' = crowd
           /\ \A ip \in ClientKeys :
                 CallOf(ip)
                 => LET sweep == CacheLen(rate_limit_cache, crowd)
                                    > CLEANUP_THRESHOLD
                    IN  /\ ~sweep => (removed = {} /\ crowd' = crowd)
                        /\ sweep =>
                             /\ removed =
                                  {k \in DOMAIN rate_limit_cache \ {ip} :
                                      Expired(rate_limit_cache[k][2])}
                             /\ (crowd.n > 0 /\ Expired(crowd.ts))
                                   => crowd' = NoCrowd
                             /\ (ip \in DOMAIN rate_limit_cache
                                 /\ Expired(rate_limit_cache[ip][2]))
                                   => rate_limit_cache'[ip] = <<1, now>>]_vars

(* a call of ip1 has swept the entry of ip2 *)
C30_Witness ==
    /\ rl["ip2"].calls > 0
    /\ "ip2" \notin DOMAIN rate_limit_cache
    /\ ~IsNone(rl["ip1"].last) /\ Val(rl["ip1"].last).t = now
    /\ "ip1" \in DOMAIN rate_limit_cache

(* C31: for a linear curve the per-token price of a purchase is            *)
(* initial_price + slope * m, with m the minted counter of the ICO as read *)
(* when the purchase was priced, its own amount not included: the price    *)
(* required is amount * (initial_price + slope * m) / 10^decimals.          *)
C31_LinearPriceAtCountBefore ==
    \A r \in Requests :
       (/\ ~IsNone(req[r].required) /\ ~req[r].sell
        /\ req[r].ico_id \in DOMAIN ico_data
        /\ ico_data[req[r].ico_id].ico.curve_type = "linear")
       => LET ico == ico_data[req[r].ico_id].ico
              m == Val(req[r].priced_at)
          IN  /\ Val(req[r].required).num
                    = req[r].amount.n
                      * (Val(ico.initial_price) + Val(ico.slope) * m)
              /\ Val(req[r].required).den
                    = Pow(10, ico_data[req[r].ico_id].token.decimals)

(* a purchase of one unit of main_ico (initial_price 2, slope 1) priced   *)
(* at a count of 1: 3 lamports, not 4                                       *)
C31_Witness ==
    /\ req["r1"].ico_id = "main_ico" /\ req["r1"].amount.n = 1
    /\ req["r1"].priced_at = Some(1)
    /\ Val(req["r1"].required).num = 3
    /\ req["r1"].outcome = "Success"
    /\ total_tokens_minted["main_ico"] = 2

(* C32 as stated: the per-token price of a linear curve, for every          *)
(* initial_price and every two supplies s1 < s2, is strictly greater at s2  *)
(* when slope > 0, strictly smaller at s2 when slope < 0, and the same when *)
(* slope = 0.                                                                *)
IsLinearBuy(c) == c.cfg.ico.curve_type = "linear" /\ ~c.is_sell /\ c.result.ok

(* The per-token price behind a buy total: total / amount in whole tokens *)
PerTokenPrice(c) ==
    (c.result.num * Pow(10, c.cfg.token.decimals)) \div (c.amount * c.result.den)

LinearPairs ==
    {<<c1, c2>> \in {<<price_calls[i], price_calls[j]>> :
                        i \in DOMAIN price_calls, j \in DOMAIN price_calls} :
        /\ IsLinearBuy(c1) /\ IsLinearBuy(c2)
        /\ c1.cfg = c2.cfg
        /\ c1.supply < c2.supply}

CurveValue(c) == BasePricePerToken(c.cfg.ico, c.supply).price

C33_PriceNeverNegative ==
    \A i \in DOMAIN price_calls :
       LET c == price_calls[i]
       IN  c.result.ok
           => /\ c.result.num >= 0
              /\ c.result.den > 0
              /\ CurveValue(c) < 0 => c.result.num = 0

C33_Witness ==
    /\ Len(price_calls) = 2
    /\ price_calls[1].cfg.ico.curve_type = "fixed"
    /\ CurveValue(price_calls[1]) = -3
    /\ ~price_calls[1].is_sell
    /\ price_calls[1].result.ok /\ price_calls[1].result.num = 0
    /\ price_calls[2].cfg.ico.sell_fee_percentage = 150
    /\ price_calls[2].is_sell
    /\ CurveValue(price_calls[2]) = 30
    /\ price_calls[2].result.ok /\ price_calls[2].result.num = 0

(* C34: a request whose ICO has a curve that yields no price (sigmoid, a    *)
(* curve parameter absent, a custom formula that fails) and that comes to   *)
(* the price computation ends there with an error: no price is put in       *)
(* place of the missing one, no ledger call is made and no minted counter   *)
(* changes.                                                                  *)
FailingFormulas == {F_DIV_ZERO, F_UNKNOWN_NAME}

NoPriceFor(ico) ==
    \/ ico.curve_type = "sigmoid"
    \/ ico.curve_type = "fixed" /\ IsNone(ico.fixed_price)
    \/ ico.curve_type = "linear"
       /\ (IsNone(ico.initial_price) \/ IsNone(ico.slope))
    \/ ico.curve_type = "exponential"
       /\ (IsNone(ico.initial_price) \/ IsNone(ico.growth_rate))
    \/ ico.curve_type = "custom"
       /\ (\/ IsNone(ico.custom_formula) \/ IsNone(ico.initial_price)
           \/ Val(ico.custom_formula) \in FailingFormulas)

Unpriceable(q) ==
    /\ q.ico_id \in DOMAIN ico_data
    /\ ~IsNone(q.priced_at)
    /\ NoPriceFor(ico_data[q.ico_id].ico)

NoLedgerCall(q) ==
    /\ \A m \in DOMAIN q.calls : q.calls[m] = 0
    /\ IsNone(q.payment) /\ IsNone(q.transfer_sig) /\ IsNone(q.commit)

C34_UnpriceableEndsInError ==
    /\ [](\A r \in Requests :
             Unpriceable(req[r])
             => /\ req[r].pc = "done"
                /\ req[r].outcome = buy_tokens_except("ValueError")
                /\ IsNone(req[r].required)
                /\ NoLedgerCall(req[r]))
    /\ [][\A r \in Requests :
             (req[r].pc = "idle" /\ Unpriceable(req'[r]))
             => total_tokens_minted' = total_tokens_minted]_vars

(* a purchase on the custom curve succeeds, then one on the formula that    *)
(* divides by zero fails                                                     *)
C34_Witness ==
    /\ req["r1"].pc = "done"
    /\ req["r1"].ico_id = "div_zero_ico"
    /\ Unpriceable(req["r1"])
    /\ req["r1"].outcome = "InvalidInput"
    /\ total_tokens_minted["custom_ico"] = 1
    /\ total_tokens_minted["div_zero_ico"] = 0

(* C35: in every state of the rate limiter, each tracked key (the named     *)
(* ones and those of the crowd, which hold one request each) has a count of *)
(* at least 1 and at most the limit, and a window_start that is not later   *)
(* than the current time.                                                    *)
C35_TrackedEntriesInRange ==
    /\ \A ip \in DOMAIN rate_limit_cache :
          /\ 1 <= rate_limit_cache[ip][1]
          /\ rate_limit_cache[ip][1] <= limit
          /\ rate_limit_cache[ip][2] <= now
    /\ crowd.n > 0 => (1 <= limit /\ crowd.ts <= now)

(* a key has used its whole quota of 2 in a window begun at 59, next to an  *)
(* entry begun at 0 and a crowd                                              *)
C35_Witness ==
    /\ limit = 2 /\ now = 118
    /\ DOMAIN rate_limit_cache = {"ip1", "ip2"}
    /\ rate_limit_cache["ip1"] = <<2, 59>>
    /\ rate_limit_cache["ip2"][2] = 0
    /\ crowd.n > 0
    /\ rl["ip1"].calls = 3

(* C36: eviction does not show in the decisions: every call is admitted or  *)
(* rejected as by the limiter that never evicts, whose entry for a key is   *)
(* the tracked one while the key is tracked and is an expired one once the  *)
(* key has been evicted.                                                     *)
C36_EvictionTransparent ==
    \A ip \in ClientKeys :
       /\ ~IsNone(rl[ip].last)
             => Val(rl[ip].last).allowed = Val(rl[ip].last).ref_allowed
       /\ ip \in DOMAIN rate_limit_cache
             => rl[ip].ref = Some(rate_limit_cache[ip])
       /\ (ip \notin DOMAIN rate_limit_cache /\ ~IsNone(rl[ip].ref))
             => now - Val(rl[ip].ref)[2] >= RATE_WINDOW

(* ip1 used its quota at time 0 and was evicted by a later sweep; its next  *)
(* call finds no entry and is admitted, as the expired entry would be       *)
C36_Witness ==
    /\ rl["ip1"].calls = limit + 1
    /\ Len(rl["ip1"].early) = limit
    /\ Val(rl["ip1"].last).found = None
    /\ Val(rl["ip1"].last).allowed
    /\ Val(rl["ip1"].last).ref_allowed
    /\ crowd.n > 0

(* C37: a request that the rate check admits is counted against its key    *)
(* whatever becomes of it: the call that is admitted opens a window with    *)
(* count 1 or adds 1 to the count of the open window, in the same step in   *)
(* which it may already end in NotFound, InactiveICO, a price error or a    *)
(* malformed reference; no later step of a request (a payment or transfer   *)
(* failure, its return) takes anything back; and a call that finds the      *)
(* count of its key's open window at the limit is rejected.                 *)
Starts(r) ==
    /\ req[r].pc = "idle" /\ req'[r].pc # "idle"
    /\ validate_token_operation_params(req'[r].ico_id, req'[r].amount,
                                       req'[r].payment_transaction,
                                       req'[r].client_ip)
    /\ req'[r].outcome \notin {buy_tokens_except(e) : e \in OtherExceptions}

WindowOpenFor(ip) ==
    /\ ip \in DOMAIN rate_limit_cache
    /\ now - rate_limit_cache[ip][2] < RATE_WINDOW

Rejected(q) == q.pc = "done" /\ q.outcome = "RateLimitExceeded"

C37_AdmittedCountsWhateverItsEnd ==
    [][/\ \A r \in Requests :
            Starts(r)
            => LET ip == req'[r].client_ip
               IN  IF WindowOpenFor(ip)
                   THEN IF rate_limit_cache[ip][1] >= limit
                        THEN /\ Rejected(req'[r])
                             /\ rate_limit_cache' = rate_limit_cache
                        ELSE /\ ~Rejected(req'[r])
                             /\ EntryOf(rate_limit_cache', ip) =
                                   Some(<<rate_limit_cache[ip][1] + 1,
                                          rate_limit_cache[ip][2]>>)
                   ELSE /\ ~Rejected(req'[r])
                        /\ EntryOf(rate_limit_cache', ip) = Some(<<1, now>>)
       /\ (\A r \in Requests : ~(req[r].pc = "idle" /\ req'[r].pc # "idle"))
            => rate_limit_cache' = rate_limit_cache]_vars

(* with limit 2 and nothing minted, a third request in the window of two   *)
(* admitted ones, the last of which failed for its price, is rejected      *)
C37_Witness ==
    /\ limit = 2 /\ now = 0
    /\ EntryOf(rate_limit_cache, "ip1") = Some(<<2, 0>>)
    /\ Rejected(req["r1"])
    /\ MintedTotal = 0

(* C38: no record is kept of the payment references already used.  A       *)
(* request whose payment is a sufficient transfer to the ICO wallet goes on *)
(* to its own token transfer although another request has had the same      *)
(* reference validated; and of two successful requests citing the same      *)
(* reference each has submitted a transfer of its own and each has          *)
(* incremented the counter by its amount.                                    *)
SufficientPayment(q) ==
    /\ ~IsNone(q.payment) /\ ~IsNone(q.required)
    /\ Val(q.payment).kind = "transfer"
    /\ Val(q.payment).lamports * Val(q.required).den >= Val(q.required).num

SameReferenceValidated(r) ==
    \E s \in Requests \ {r} :
       /\ req[s].payment_transaction = req[r].payment_transaction
       /\ PaymentValidated(req[s])

C38_ReferenceReusable ==
    /\ [][\A r \in Requests :
            (/\ req[r].pc = "await_payment" /\ req'[r].pc # "await_payment"
             /\ SufficientPayment(req'[r])
             /\ SameReferenceValidated(r))
            => /\ req'[r].pc = "await_blockhash"
               /\ req'[r].calls.getLatestBlockhash = 1]_vars
    /\ [](\A r \in Requests : \A s \in Requests \ {r} :
            (/\ req[r].outcome = "Success" /\ req[s].outcome = "Success"
             /\ req[r].payment_transaction = req[s].payment_transaction)
            => /\ req[r].calls.sendTransaction = 1
               /\ req[s].calls.sendTransaction = 1
               /\ req[r].transfer_sig # req[s].transfer_sig
               /\ \A x \in {r, s} :
                     ~req[x].commit_raised
                     => /\ ~IsNone(req[x].commit)
                        /\ Val(req[x].commit).after
                              = Val(req[x].commit).before + req[x].amount.n)

(* both requests cite sig1 for main_ico, r2 after r1 has succeeded, and    *)
(* both are counted                                                          *)
C38_Witness ==
    /\ \A r \in Requests :
          /\ req[r].outcome = "Success" /\ ~req[r].commit_raised
          /\ req[r].payment_transaction = "sig1"
          /\ req[r].ico_id = "main_ico" /\ req[r].amount.n = 1
    /\ req["r1"].commit = Some([before |-> 0, after |-> 1])
    /\ req["r2"].priced_at = Some(1)
    /\ req["r2"].commit = Some([before |-> 1, after |-> 2])
    /\ total_tokens_minted["main_ico"] = 2

(* C39: a define that is accepted puts its configuration in the registry   *)
(* and, when the id has a counter, leaves every counter as it is; only for *)
(* an id without counter does it add one, at 0.  The supply a later price  *)
(* is computed from is therefore never reset or lowered by a define.        *)
DefineStep ==
    /\ req' = req
    /\ <<last_define, ico_data, total_tokens_minted, config_files>>'
          # <<last_define, ico_data, total_tokens_minted, config_files>>

C39_RedefineKeepsCounter ==
    [][(DefineStep /\ last_define'.result \in {"created", "save_error"})
       => LET id == last_define'.ico_id
          IN  /\ id \in DOMAIN ico_data'
              /\ ico_data'[id] = Val(last_define'.input).cfg
              /\ DOMAIN total_tokens_minted'
                    = DOMAIN total_tokens_minted \cup {id}
              /\ \A k \in DOMAIN total_tokens_minted :
                    total_tokens_minted'[k] = total_tokens_minted[k]
              /\ id \notin DOMAIN total_tokens_minted
                    => total_tokens_minted'[id] = 0]_vars

(* main_ico is defined again after one unit was sold, and the next unit is *)
(* priced by the new curve at the supply 1: 3 + 2 * 1 lamports per token,  *)
(* one unit being a tenth of a token                                        *)
C39_Witness ==
    /\ ico_data["main_ico"] = MainIcoAgain
    /\ last_define.ico_id = "main_ico" /\ last_define.result = "created"
    /\ total_tokens_minted["main_ico"] = 1
    /\ req["r1"].pc = "await_payment"
    /\ req["r1"].ico_id = "main_ico" /\ req["r1"].amount.n = 1
    /\ req["r1"].priced_at = Some(1)
    /\ req["r1"].required = Some([num |-> 5, den |-> 10])

====
